---- MODULE Spec2Model ----
(***************************************************************************)
(* TrustScoreEngine of MoMo-More (backend/app/libs/trust_score_engine.py): *)
(* the five component calculators, the weighted aggregator                 *)
(* calculate_trust_score and the offer generator generate_loan_offer.      *)
(*                                                                         *)
(* Number representation (Python floats are modelled as exact rationals    *)
(* in fixed point):                                                        *)
(*   - percentages and rates of the dataset (success_rate,                 *)
(*     location_consistency, identity_verification_score,                  *)
(*     failed_transaction_rate) are in tenths: 985 is 98.5;                *)
(*   - every score is in units of 1/10000 point: PT is one point;          *)
(*   - balances of the dataset are in cents; the scales of the offer       *)
(*     amounts are stated at generate_loan_offer;                          *)
(*   - the wall clock `now' counts days.                                   *)
(* A Python dict is a function whose DOMAIN is the set of keys present.    *)
(***************************************************************************)
EXTENDS Integers, Sequences, FiniteSets, TLC

VARIABLES
    now,          \* the wall clock read by datetime.now() / datetime.utcnow(), in days
    mtn_data,     \* the dataset handed to calculate_trust_score
    frame,        \* locals of the last calculate_trust_score call (<<>> before any call)
    result,       \* the dict returned by the last calculate_trust_score call (<<>> before)
    trust_score,  \* first argument of generate_loan_offer
    balance_info, \* second argument of generate_loan_offer
    offer,        \* the dict returned by the last generate_loan_offer call (<<>> before)
    WEIGHTS,      \* the class attribute TrustScoreEngine.WEIGHTS, in hundredths
    null_fields,  \* the key paths of mtn_data that hold None instead of a value
    calls,        \* the calls running in parallel threads: kind, position, input,
                  \* locals and returned value of each
    client,       \* an MTNAPIClient: _bearer_token and _token_expires_at, the position
                  \* of its _get_bearer_token call and what the last call gave
    utcnow        \* the clock read by datetime.utcnow() in mtn_client.py, in minutes

vars ==
    <<now, mtn_data, frame, result, trust_score, balance_info, offer, WEIGHTS, null_fields,
      calls, client, utcnow>>

----------------------------------------------------------------------------
(* Generic helpers *)

\* one score point, in score units
PT == 100 * 100

\* dict.get(key, default)
Get(d, k, default) == IF k \in DOMAIN d THEN d[k] ELSE default

\* key in dict
Has(d, k) == k \in DOMAIN d

\* the empty dict {}
EmptyDict == <<>>

\* Python min / max of two numbers
Min(a, b) == IF a <= b THEN a ELSE b

Max(a, b) == IF a >= b THEN a ELSE b

\* round(x, ndigits) on a value x held in fixed point: the nearest multiple of
\* `step' (step = one unit of the last kept digit), ties to the even multiple,
\* as Python's round does on exactly representable values.
RoundTo(x, step) ==
    LET q == x \div step
        r == x - q * step
    IN  IF 2 * r < step THEN q * step
        ELSE IF 2 * r > step THEN (q + 1) * step
        ELSE IF q % 2 = 0 THEN q * step ELSE (q + 1) * step

\* round(score, 1) of a score in score units
Round1(x) == RoundTo(x, PT \div 10)

\* the integer nearest to n / d (d > 0), ties to the even one
RoundQuot(n, d) ==
    LET q == n \div d
        r == n - q * d
    IN  IF 2 * r < d THEN q
        ELSE IF 2 * r > d THEN q + 1
        ELSE IF q % 2 = 0 THEN q ELSE q + 1

----------------------------------------------------------------------------
(* calculate_account_health_score *)

\* datetime.fromisoformat(s.replace('Z', '+00:00')): a customer_since value is
\* <<"iso", d>> for a string that is the ISO date of day d, and <<"text">> for a
\* value fromisoformat (or .replace) raises on.
IsIsoDate(v) == v[1] = "iso"

\* the age ladder of lines 41-50
AgeScore(days_active) ==
    IF days_active >= 730 THEN 25
    ELSE IF days_active >= 365 THEN 20
    ELSE IF days_active >= 180 THEN 15
    ELSE IF days_active >= 90 THEN 10
    ELSE 5

\* the scorer with other age points and factors for an unparsable and for an
\* absent customer_since
AccountHealthWithAgeRule(account_data, clock, unparsable, absent) ==
    LET status_ok == Has(account_data, "account_status")
                        /\ account_data["account_status"] = "ACTIVE"
        kyc_ok    == Has(account_data, "kyc_status")
                        /\ account_data["kyc_status"] = "VERIFIED"
        s1 == IF status_ok THEN 30 * PT ELSE 0
        f1 == IF status_ok THEN << <<"Active account status">> >> ELSE <<>>
        s2 == s1 + (IF kyc_ok THEN 25 * PT ELSE 0)
        f2 == f1 \o (IF kyc_ok THEN << <<"KYC verified">> >> ELSE <<>>)
        has_since == Has(account_data, "customer_since")
        parsed == has_since /\ IsIsoDate(account_data["customer_since"])
        days_active == IF parsed THEN clock - account_data["customer_since"][2] ELSE 0
        s3 == s2 + (IF ~has_since THEN absent.points * PT
                    ELSE IF parsed THEN AgeScore(days_active) * PT
                    ELSE unparsable.points * PT)
        f3 == f2 \o (IF ~has_since THEN absent.factors
                     ELSE IF parsed THEN << <<"Account age: ", days_active, " days">> >>
                     ELSE unparsable.factors)
        identity_score == Get(Get(account_data, "risk_indicators", EmptyDict),
                              "identity_verification_score", 900)
        s4 == s3 + (identity_score * 20 * PT) \div 1000
        f4 == f3 \o << <<"Identity verification: ", identity_score, "%">> >>
    IN  [score |-> Min(s4, 100 * PT), factors |-> f4]

\* the except branch adding points that grow with the time of the call
calculate_account_health_score_ClockFallback(account_data, clock) ==
    AccountHealthWithAgeRule(account_data, clock,
        [points |-> 10 + clock, factors |-> << <<"Account age available">> >>],
        [points |-> 0, factors |-> <<>>])

\* the except branch adding the points of the youngest rung and no factor
calculate_account_health_score_SilentFallback(account_data, clock) ==
    AccountHealthWithAgeRule(account_data, clock,
        [points |-> 5, factors |-> <<>>],
        [points |-> 0, factors |-> <<>>])

\* an absent customer_since treated as an unparsable one
calculate_account_health_score_AbsentAsUnparsable(account_data, clock) ==
    AccountHealthWithAgeRule(account_data, clock,
        [points |-> 10, factors |-> << <<"Account age available">> >>],
        [points |-> 10, factors |-> << <<"Account age available">> >>])

calculate_account_health_score(account_data, clock) ==
    LET status_ok == Has(account_data, "account_status")
                        /\ account_data["account_status"] = "ACTIVE"
        kyc_ok    == Has(account_data, "kyc_status")
                        /\ account_data["kyc_status"] = "VERIFIED"
        s1 == IF status_ok THEN 30 * PT ELSE 0
        f1 == IF status_ok THEN << <<"Active account status">> >> ELSE <<>>
        s2 == s1 + (IF kyc_ok THEN 25 * PT ELSE 0)
        f2 == f1 \o (IF kyc_ok THEN << <<"KYC verified">> >> ELSE <<>>)
        has_since == Has(account_data, "customer_since")
        parsed == has_since /\ IsIsoDate(account_data["customer_since"])
        days_active == IF parsed THEN clock - account_data["customer_since"][2] ELSE 0
        s3 == s2 + (IF ~has_since THEN 0
                    ELSE IF parsed THEN AgeScore(days_active) * PT
                    ELSE 10 * PT)
        f3 == f2 \o (IF ~has_since THEN <<>>
                     ELSE IF parsed THEN << <<"Account age: ", days_active, " days">> >>
                     ELSE << <<"Account age available">> >>)
        identity_score == Get(Get(account_data, "risk_indicators", EmptyDict),
                              "identity_verification_score", 900)
        s4 == s3 + (identity_score * 20 * PT) \div 1000
        f4 == f3 \o << <<"Identity verification: ", identity_score, "%">> >>
    IN  [score |-> Min(s4, 100 * PT), factors |-> f4]

----------------------------------------------------------------------------
(* calculate_transaction_patterns_score *)

\* set(tx.get("type", "UNKNOWN") for tx in transaction_history), lines 104-107
TransactionTypes(transaction_history) ==
    { Get(transaction_history[i], "type", "UNKNOWN") : i \in DOMAIN transaction_history }

calculate_transaction_patterns_score(payment_data) ==
    LET monthly_count == Get(payment_data, "monthly_transaction_count", 0)
        freq_score == IF monthly_count >= 40 THEN 25
                      ELSE IF monthly_count >= 20 THEN 20
                      ELSE IF monthly_count >= 10 THEN 15
                      ELSE IF monthly_count >= 5 THEN 10
                      ELSE 5
        success_rate == Get(payment_data, "success_rate", 950)
        success_score == IF success_rate >= 980 THEN 35
                         ELSE IF success_rate >= 950 THEN 30
                         ELSE IF success_rate >= 900 THEN 25
                         ELSE IF success_rate >= 850 THEN 20
                         ELSE 10
        transaction_types == TransactionTypes(Get(payment_data, "transaction_history", <<>>))
        variety_score == Min(Cardinality(transaction_types) * 5, 20)
        avg_amount == Get(payment_data, "average_transaction_amount", 0)
        amount_score == IF avg_amount >= 50000 THEN 20
                        ELSE IF avg_amount >= 20000 THEN 15
                        ELSE IF avg_amount >= 10000 THEN 10
                        ELSE 5
        score == (freq_score + success_score + variety_score + amount_score) * PT
    IN  [score |-> Min(score, 100 * PT),
         factors |-> << <<"Monthly transactions: ", monthly_count>>,
                        <<"Transaction success rate: ", success_rate, "%">>,
                        <<"Transaction types: ", Cardinality(transaction_types)>>,
                        <<"Average transaction: R", avg_amount>> >>]

----------------------------------------------------------------------------
(* calculate_financial_behavior_score *)

calculate_financial_behavior_score(balance_data, payment_data) ==
    LET current_balance == Get(balance_data, "current_balance", 0)
        balance_score == IF current_balance >= 500000 THEN 30
                         ELSE IF current_balance >= 200000 THEN 25
                         ELSE IF current_balance >= 100000 THEN 20
                         ELSE IF current_balance >= 50000 THEN 15
                         ELSE IF current_balance >= 10000 THEN 10
                         ELSE 5
        avg_monthly == Get(balance_data, "average_monthly_balance", 0)
        avg_score == IF avg_monthly >= 300000 THEN 25
                     ELSE IF avg_monthly >= 150000 THEN 20
                     ELSE IF avg_monthly >= 80000 THEN 15
                     ELSE IF avg_monthly >= 40000 THEN 10
                     ELSE 5
        bill_frequency == Get(payment_data, "bill_payment_frequency", "NEVER")
        bill_score == IF bill_frequency = "MONTHLY" THEN 25
                      ELSE IF bill_frequency = "WEEKLY" THEN 20
                      ELSE IF bill_frequency = "QUARTERLY" THEN 15
                      ELSE 5
        regular_recipients == Get(payment_data, "regular_recipients", 0)
        recipient_score == Min(regular_recipients * 5, 20)
        score == (balance_score + avg_score + bill_score + recipient_score) * PT
    IN  [score |-> Min(score, 100 * PT),
         factors |-> << <<"Current balance: R", current_balance>>,
                        <<"Average monthly balance: R", avg_monthly>>,
                        <<"Bill payment frequency: ", bill_frequency>>,
                        <<"Regular recipients: ", regular_recipients>> >>]

----------------------------------------------------------------------------
(* calculate_engagement_score *)

calculate_engagement_score(behavioral_data) ==
    LET usage_days == Get(behavioral_data, "app_usage_days_per_month", 0)
        usage_score == IF usage_days >= 25 THEN 40
                       ELSE IF usage_days >= 20 THEN 35
                       ELSE IF usage_days >= 15 THEN 30
                       ELSE IF usage_days >= 10 THEN 20
                       ELSE 10
        check_freq == Get(behavioral_data, "balance_check_frequency", "NEVER")
        check_score == IF check_freq = "DAILY" THEN 30
                       ELSE IF check_freq = "WEEKLY" THEN 25
                       ELSE IF check_freq = "MONTHLY" THEN 15
                       ELSE 5
        location_consistency == Get(behavioral_data, "location_consistency", 500)
        location_score == (location_consistency * 30 * PT) \div 1000
        score == (usage_score + check_score) * PT + location_score
    IN  [score |-> Min(score, 100 * PT),
         factors |-> << <<"App usage: ", usage_days, " days/month">>,
                        <<"Balance checks: ", check_freq>>,
                        <<"Location consistency: ", location_consistency, "%">> >>]

----------------------------------------------------------------------------
(* calculate_risk_deduction *)

\* the rules with the two rungs of the dispute ladder exchanged
RiskRules_DisputesInverted(risk_data) ==
    LET failed_rate == Get(risk_data, "failed_transaction_rate", 0)
        d1 == IF failed_rate > 50 THEN 30 ELSE IF failed_rate > 20 THEN 15 ELSE 0
        disputes == Get(risk_data, "dispute_count_6months", 0)
        d2 == d1 + (IF disputes > 2 THEN 10 ELSE IF disputes > 0 THEN 25 ELSE 0)
        flags == Get(risk_data, "suspicious_activity_flags", <<>>)
        d3 == d2 + (IF Len(flags) > 0 THEN Len(flags) * 15 ELSE 0)
    IN  [deduction |-> d3 * PT,
         factors |-> IF d3 = 0 THEN << <<"No significant risk factors">> >>
                     ELSE << <<"Risk rules applied: ", d3>> >>]

\* the rules with an empty factor trail when none of them applies
RiskRules_EmptyTrailWhenClean(risk_data) ==
    LET failed_rate == Get(risk_data, "failed_transaction_rate", 0)
        d1 == IF failed_rate > 50 THEN 30 ELSE IF failed_rate > 20 THEN 15 ELSE 0
        disputes == Get(risk_data, "dispute_count_6months", 0)
        d2 == d1 + (IF disputes > 2 THEN 25 ELSE IF disputes > 0 THEN 10 ELSE 0)
        flags == Get(risk_data, "suspicious_activity_flags", <<>>)
        d3 == d2 + (IF Len(flags) > 0 THEN Len(flags) * 15 ELSE 0)
    IN  [deduction |-> d3 * PT,
         factors |-> IF d3 = 0 THEN <<>> ELSE << <<"Risk rules applied: ", d3>> >>]

\* lines 238-266: the deduction before the clamp of line 268, and the factor trail
RiskRules(risk_data) ==
    LET failed_rate == Get(risk_data, "failed_transaction_rate", 0)
        d1 == IF failed_rate > 50 THEN 30 ELSE IF failed_rate > 20 THEN 15 ELSE 0
        f1 == IF failed_rate > 50 THEN << <<"High failure rate: ", failed_rate, "%">> >>
              ELSE IF failed_rate > 20
                   THEN << <<"Moderate failure rate: ", failed_rate, "%">> >>
              ELSE <<>>
        disputes == Get(risk_data, "dispute_count_6months", 0)
        d2 == d1 + (IF disputes > 2 THEN 25 ELSE IF disputes > 0 THEN 10 ELSE 0)
        f2 == f1 \o (IF disputes > 2 THEN << <<"Multiple disputes: ", disputes>> >>
                     ELSE IF disputes > 0 THEN << <<"Some disputes: ", disputes>> >>
                     ELSE <<>>)
        flags == Get(risk_data, "suspicious_activity_flags", <<>>)
        d3 == d2 + (IF Len(flags) > 0 THEN Len(flags) * 15 ELSE 0)
        f3 == f2 \o (IF Len(flags) > 0
                     THEN << <<"Suspicious activities: ", Len(flags)>> >>
                     ELSE <<>>)
        risk_factors == IF f3 = <<>> THEN << <<"No significant risk factors">> >> ELSE f3
    IN  [deduction |-> d3 * PT, factors |-> risk_factors]

\* the calculator without the clamp of line 268
calculate_risk_deduction_Unclamped(risk_data) ==
    [score |-> RiskRules(risk_data).deduction, factors |-> RiskRules(risk_data).factors]

calculate_risk_deduction(risk_data) ==
    [score |-> Min(RiskRules(risk_data).deduction, 100 * PT),
     factors |-> RiskRules(risk_data).factors]

----------------------------------------------------------------------------
(* calculate_trust_score *)

\* a table whose four category weights sum to 1.0
InitialWeights_CategoriesSumToOne ==
    [account_health |-> 25, transaction_patterns |-> 30, financial_behavior |-> 25,
     engagement_loyalty |-> 20, risk_factors |-> 5]

\* the class-level WEIGHTS literal, lines 11-17, in hundredths
InitialWeights ==
    [account_health |-> 25, transaction_patterns |-> 30, financial_behavior |-> 25,
     engagement_loyalty |-> 15, risk_factors |-> 5]

\* the weighted sum rescaled as if the four category weights summed to 1.0
OverallScore_Renormalised(account_score, transaction_score, financial_score, engagement_score, W) ==
    ((account_score * W.account_health
      + transaction_score * W.transaction_patterns
      + financial_score * W.financial_behavior
      + engagement_score * W.engagement_loyalty) \div 95)

\* the weighted sum with the account and transaction weights exchanged
OverallScore_WeightsSwapped(account_score, transaction_score, financial_score, engagement_score, W) ==
    (account_score * W.transaction_patterns
     + transaction_score * W.account_health
     + financial_score * W.financial_behavior
     + engagement_score * W.engagement_loyalty) \div 100

\* lines 289-294: the weighted sum of the four positive components
OverallScore(account_score, transaction_score, financial_score, engagement_score, W) ==
    (account_score * W.account_health
     + transaction_score * W.transaction_patterns
     + financial_score * W.financial_behavior
     + engagement_score * W.engagement_loyalty) \div 100

\* lines 274-298: the locals of one call on dataset d with weight table W;
\* called_at is the wall-clock time `clock' the call reads at line 39
TrustScoreLocals(d, clock, W) ==
    LET account_info     == Get(d, "account_info", EmptyDict)
        balance          == Get(d, "balance_info", EmptyDict)
        payment_patterns == Get(d, "payment_patterns", EmptyDict)
        behavioral_data  == Get(d, "behavioral_data", EmptyDict)
        risk_indicators  == Get(d, "risk_indicators", EmptyDict)
        account     == calculate_account_health_score(account_info, clock)
        transaction == calculate_transaction_patterns_score(payment_patterns)
        financial   == calculate_financial_behavior_score(balance, payment_patterns)
        engagement  == calculate_engagement_score(behavioral_data)
        risk        == calculate_risk_deduction(risk_indicators)
        overall_score == OverallScore(account.score, transaction.score, financial.score,
                                      engagement.score, W)
        risk_adjusted_score == overall_score - (risk.score * W.risk_factors) \div 100
    IN  [called_at |-> clock,
         account |-> account, transaction |-> transaction, financial |-> financial,
         engagement |-> engagement, risk |-> risk,
         overall_score |-> overall_score,
         risk_adjusted_score |-> risk_adjusted_score,
         final_score |-> Max(Min(risk_adjusted_score, 100 * PT), 0)]

\* the returned dict with final_score left unrounded
TrustScoreResult_Unrounded(L, W) ==
    [final_score |-> L.final_score,
     score_components |->
        [account_health |-> Round1(L.account.score),
         transaction_patterns |-> Round1(L.transaction.score),
         financial_behavior |-> Round1(L.financial.score),
         engagement_loyalty |-> Round1(L.engagement.score),
         risk_deduction |-> Round1(L.risk.score)],
     transparency_details |->
        [account_factors |-> L.account.factors,
         transaction_factors |-> L.transaction.factors,
         financial_factors |-> L.financial.factors,
         engagement_factors |-> L.engagement.factors,
         risk_factors |-> L.risk.factors,
         calculation_weights |-> W]]

\* lines 300-317: the returned dict, built from the locals L
TrustScoreResult(L, W) ==
    [final_score |-> Round1(L.final_score),
     score_components |->
        [account_health |-> Round1(L.account.score),
         transaction_patterns |-> Round1(L.transaction.score),
         financial_behavior |-> Round1(L.financial.score),
         engagement_loyalty |-> Round1(L.engagement.score),
         risk_deduction |-> Round1(L.risk.score)],
     transparency_details |->
        [account_factors |-> L.account.factors,
         transaction_factors |-> L.transaction.factors,
         financial_factors |-> L.financial.factors,
         engagement_factors |-> L.engagement.factors,
         risk_factors |-> L.risk.factors,
         calculation_weights |-> W]]

calculate_trust_score(d, clock, W) == TrustScoreResult(TrustScoreLocals(d, clock, W), W)

----------------------------------------------------------------------------
(* generate_loan_offer *)
(* trust_score is in score units, the balances of balance_info and the cap *)
(* final_max_amount are in cents.  Every amount derived from the cap       *)
(* (principal, interest, fee, repayments) is in units of 1/80000 of a      *)
(* currency unit, the coarsest scale in which cap * percentage *           *)
(* interest_rate / 100 is exact for a cap in cents: CENT is one cent and   *)
(* MU one currency unit in that scale.                                     *)

CENT == 8 * 100

MU == 100 * CENT

\* the ladder with > for >= at every rung
LoanTier_StrictThresholds(score) ==
    IF score > 85 * PT
    THEN [tier |-> "EXCELLENT", max_amount |-> 15000, rate |-> 25, term |-> 180]
    ELSE IF score > 70 * PT
    THEN [tier |-> "GOOD", max_amount |-> 10000, rate |-> 35, term |-> 120]
    ELSE IF score > 55 * PT
    THEN [tier |-> "FAIR", max_amount |-> 5000, rate |-> 50, term |-> 90]
    ELSE IF score > 40 * PT
    THEN [tier |-> "POOR", max_amount |-> 2000, rate |-> 75, term |-> 60]
    ELSE [tier |-> "REJECTED", max_amount |-> 0, rate |-> 0, term |-> 0]

\* lines 324-350: the tier ladder; rate is the interest rate in tenths of a percent
LoanTier(score) ==
    IF score >= 85 * PT
    THEN [tier |-> "EXCELLENT", max_amount |-> 15000, rate |-> 25, term |-> 180]
    ELSE IF score >= 70 * PT
    THEN [tier |-> "GOOD", max_amount |-> 10000, rate |-> 35, term |-> 120]
    ELSE IF score >= 55 * PT
    THEN [tier |-> "FAIR", max_amount |-> 5000, rate |-> 50, term |-> 90]
    ELSE IF score >= 40 * PT
    THEN [tier |-> "POOR", max_amount |-> 2000, rate |-> 75, term |-> 60]
    ELSE [tier |-> "REJECTED", max_amount |-> 0, rate |-> 0, term |-> 0]

\* the cap taken from the balances alone whenever they give a positive limit
FinalMaxAmount_NoTierBound(max_amount, balances) ==
    LET current_balance == Get(balances, "current_balance", 0)
        avg_balance == Get(balances, "average_monthly_balance", 0)
        balance_based_limit == Min(avg_balance * 2, current_balance * 5)
        final_max_amount == IF balance_based_limit > 0
                            THEN balance_based_limit
                            ELSE max_amount * 100
    IN  IF final_max_amount < 500 * 100 THEN 500 * 100 ELSE final_max_amount

\* lines 352-362: the affordability cap, in cents
FinalMaxAmount(max_amount, balances) ==
    LET current_balance == Get(balances, "current_balance", 0)
        avg_balance == Get(balances, "average_monthly_balance", 0)
        balance_based_limit == Min(avg_balance * 2, current_balance * 5)
        final_max_amount == IF balance_based_limit > 0
                            THEN Min(max_amount * 100, balance_based_limit)
                            ELSE max_amount * 100
    IN  IF final_max_amount < 500 * 100 THEN 500 * 100 ELSE final_max_amount

\* line 365: max(final_max_amount * 0.02, 25)
ProcessingFee(final_max_amount) == Max(final_max_amount * 2 * (CENT \div 100), 25 * MU)

\* the fractions with 0.75 left out
Percentages_Without75 == <<25, 50, 100>>

\* line 369, in hundredths
Percentages == <<25, 50, 75, 100>>

\* line 370: final_max_amount * percentage
OptionAmount(final_max_amount, percentage) == final_max_amount * (CENT \div 100) * percentage

\* one loan option whose fee is 2% of its own principal
LoanOption_FeeOnPrincipal(amount, T, processing_fee) ==
    LET total_interest == (amount \div 200) * (T.rate \div 5)
        own_fee == Max(amount \div 50, 25 * MU)
        total_repayment == amount + total_interest + own_fee
    IN  [amount |-> RoundTo(amount, CENT),
         interest_rate_percent |-> T.rate,
         total_interest |-> RoundTo(total_interest, CENT),
         processing_fee |-> RoundTo(own_fee, CENT),
         total_repayment |-> RoundTo(total_repayment, CENT),
         term_days |-> T.term,
         daily_repayment |-> RoundQuot(total_repayment, T.term * CENT) * CENT]

\* lines 372-383: one loan option; amount is a multiple of 25 * CENT / 100 = 200 and
\* interest_rate / 100 is (rate / 5) / 200
LoanOption(amount, T, processing_fee) ==
    LET total_interest == (amount \div 200) * (T.rate \div 5)
        total_repayment == amount + total_interest + processing_fee
    IN  [amount |-> RoundTo(amount, CENT),
         interest_rate_percent |-> T.rate,
         total_interest |-> RoundTo(total_interest, CENT),
         processing_fee |-> RoundTo(processing_fee, CENT),
         total_repayment |-> RoundTo(total_repayment, CENT),
         term_days |-> T.term,
         daily_repayment |-> RoundQuot(total_repayment, T.term * CENT) * CENT]

\* the options without the minimum-amount test of line 371
LoanOptions_Unfiltered(final_max_amount, T) ==
    [i \in 1..Len(Percentages) |->
        LoanOption(OptionAmount(final_max_amount, Percentages[i]), T,
                   ProcessingFee(final_max_amount))]

\* lines 367-383
LoanOptions(final_max_amount, T) ==
    LET processing_fee == ProcessingFee(final_max_amount)
        kept == SelectSeq(Percentages,
                          LAMBDA p : OptionAmount(final_max_amount, p) >= 500 * MU)
    IN  [i \in 1..Len(kept) |->
            LoanOption(OptionAmount(final_max_amount, kept[i]), T, processing_fee)]

\* the rejection without its reason
RejectedOffer_NoReason == [approved |-> FALSE, minimum_score_required |-> 40]

\* lines 346-350: the bundle returned below the minimum score
RejectedOffer ==
    [approved |-> FALSE,
     reason |-> "TrustScore below minimum threshold for loan approval",
     minimum_score_required |-> 40]

\* lines 352-399: the bundle of an approved offer of tier T
ApprovedOffer(score, T, balances, clock) ==
    [approved |-> TRUE,
     trust_score |-> score,
     credit_tier |-> T.tier,
     loan_options |-> LoanOptions(FinalMaxAmount(T.max_amount, balances), T),
     terms_and_conditions |->
        [repayment_method |-> "Daily deduction from MoMo wallet",
         early_repayment_allowed |-> TRUE,
         late_payment_penalty |-> "R50 + 1% daily penalty",
         disbursement_time |-> "Within 60 seconds",
         disbursement_method |-> "Direct to MoMo wallet"],
     offer_valid_until |-> clock + 1,
     next_eligibility_check |-> clock + 7]

generate_loan_offer(score, balances, clock) ==
    LET T == LoanTier(score)
    IN  IF T.tier = "REJECTED"
        THEN RejectedOffer
        ELSE ApprovedOffer(score, T, balances, clock)

----------------------------------------------------------------------------
(* Bounded inputs *)

\* most suspicious-activity flags in a dataset
MaxFlags == 4

\* days the wall clock advances
MaxClock == 1

\* an optional field: <<>> when the key is absent, <<v>> when it holds v
Opt(S) == {<<>>} \cup { <<v>> : v \in S }

\* the dict holding the present fields of r
Dict(r) == [k \in {f \in DOMAIN r : r[f] # <<>>} |-> r[k][1]]

\* customer_since: unparsable text, or the ISO date of a day relative to day 0
SinceValues ==
    {<<"text">>} \cup { <<"iso", 0 - d>> : d \in {850, 730, 729, 365, 364, 180, 179, 90, 89, 0, -30} }

IdentityDicts ==
    {EmptyDict} \cup { [identity_verification_score |-> v] : v \in {-100, 0, 500, 987, 1000, 1500} }

AccountInfos ==
    { Dict(r) : r \in [account_status : Opt({"ACTIVE", "SUSPENDED"}),
                       kyc_status : Opt({"VERIFIED", "PENDING"}),
                       customer_since : Opt(SinceValues),
                       risk_indicators : Opt(IdentityDicts)] }

Tx(type) == [amount |-> 15000, type |-> type, status |-> "SUCCESS"]

TransactionHistories ==
    { <<>>,
      << [amount |-> 15000, status |-> "SUCCESS"] >>,
      << Tx("AIRTIME_PURCHASE"), Tx("AIRTIME_PURCHASE") >>,
      << Tx("AIRTIME_PURCHASE"), Tx("MONEY_TRANSFER"), Tx("BILL_PAYMENT") >>,
      << Tx("AIRTIME_PURCHASE"), Tx("MONEY_TRANSFER"), Tx("BILL_PAYMENT"), Tx("CASH_OUT") >>,
      << Tx("AIRTIME_PURCHASE"), Tx("MONEY_TRANSFER"), Tx("BILL_PAYMENT"), Tx("CASH_OUT"),
         [amount |-> 100, status |-> "FAILED"] >> }

\* the fields calculate_transaction_patterns_score reads
TransactionFields ==
    { Dict(r) : r \in [monthly_transaction_count : Opt({0, 5, 10, 20, 42}),
                       success_rate : Opt({800, 850, 900, 950, 985}),
                       transaction_history : Opt(TransactionHistories),
                       average_transaction_amount : Opt({0, 10000, 28750, 50000})] }

\* the fields of payment_patterns calculate_financial_behavior_score reads
BillFields ==
    { Dict(r) : r \in [bill_payment_frequency : Opt({"NEVER", "QUARTERLY", "MONTHLY", "WEEKLY"}),
                       regular_recipients : Opt({-2, 0, 3, 4, 6})] }

BalanceInfos ==
    { Dict(r) : r \in [current_balance : Opt({-500, 0, 10000, 50000, 100000, 420050, 500000}),
                       average_monthly_balance : Opt({0, 40000, 80000, 150000, 310000})] }

\* the balance records handed to generate_loan_offer
OfferBalanceInfos ==
    { Dict(r) : r \in [current_balance :
                          Opt({-500, 0, 10000, 24691, 50000, 100000, 420050, 500000, 543210}),
                       average_monthly_balance :
                          Opt({-100, 0, 20000, 40000, 61729, 80000, 150000, 310000, 380050,
                               1000000})] }

BehavioralDatas ==
    { Dict(r) : r \in [app_usage_days_per_month : Opt({0, 10, 15, 20, 26, 31}),
                       balance_check_frequency : Opt({"NEVER", "MONTHLY", "WEEKLY", "DAILY"}),
                       location_consistency : Opt({-200, 0, 500, 942, 1000, 1200})] }

FlagPool == <<"SIM_SWAP", "RAPID_CASH_OUT", "SIM_SWAP", "GEO_JUMP", "DEVICE_CHANGE", "RAPID_CASH_OUT">>

\* the first n flags of the pool, n <= MaxFlags (the pool repeats identifiers)
FlagLists == { SubSeq(FlagPool, 1, n) : n \in 0..MaxFlags }

RiskIndicators ==
    { Dict(r) : r \in [failed_transaction_rate : Opt({0, 15, 20, 21, 50, 51}),
                       dispute_count_6months : Opt({0, 1, 2, 3}),
                       suspicious_activity_flags : Opt(FlagLists)] }

\* the dataset of the first example scenario of the specification / of
\* simulate_mtn_data_collection
BestDataset ==
    [account_info |-> [account_status |-> "ACTIVE", kyc_status |-> "VERIFIED",
                       customer_since |-> <<"iso", -850>>,
                       risk_indicators |-> [identity_verification_score |-> 1000]],
     balance_info |-> [current_balance |-> 420050, average_monthly_balance |-> 310000],
     payment_patterns |-> [monthly_transaction_count |-> 42, success_rate |-> 985,
                           average_transaction_amount |-> 50000, regular_recipients |-> 4,
                           bill_payment_frequency |-> "MONTHLY",
                           transaction_history |->
                              << Tx("AIRTIME_PURCHASE"), Tx("MONEY_TRANSFER"),
                                 Tx("BILL_PAYMENT"), Tx("CASH_OUT") >>],
     behavioral_data |-> [app_usage_days_per_month |-> 26, balance_check_frequency |-> "DAILY",
                          location_consistency |-> 1000],
     risk_indicators |-> [failed_transaction_rate |-> 15, dispute_count_6months |-> 0,
                          suspicious_activity_flags |-> <<>>]]

\* the dataset with the worst value of every field
WorstDataset ==
    [account_info |-> [account_status |-> "SUSPENDED", kyc_status |-> "PENDING",
                       risk_indicators |-> [identity_verification_score |-> 0]],
     balance_info |-> [current_balance |-> 0, average_monthly_balance |-> 0],
     payment_patterns |-> [monthly_transaction_count |-> 0, success_rate |-> 800,
                           average_transaction_amount |-> 0, regular_recipients |-> 0,
                           bill_payment_frequency |-> "NEVER", transaction_history |-> <<>>],
     behavioral_data |-> [app_usage_days_per_month |-> 0, balance_check_frequency |-> "NEVER",
                          location_consistency |-> 0],
     risk_indicators |-> [failed_transaction_rate |-> 51, dispute_count_6months |-> 3,
                          suspicious_activity_flags |-> SubSeq(FlagPool, 1, MaxFlags)]]

\* d with sub-record k replaced by v
With(d, k, v) == [x \in DOMAIN d \cup {k} |-> IF x = k THEN v ELSE d[x]]

\* BestDataset with a current balance on the top rung of line 137: every
\* category score is 100
PerfectDataset ==
    With(BestDataset, "balance_info",
         [current_balance |-> 500000, average_monthly_balance |-> 310000])

SubRecordKeys ==
    {"account_info", "balance_info", "payment_patterns", "behavioral_data", "risk_indicators"}

BaseDatasets == {EmptyDict, BestDataset, WorstDataset}

\* every sub-record is in turn the best one, the worst one or missing
MixedDatasets ==
    { [k \in K |-> IF k \in B THEN BestDataset[k] ELSE WorstDataset[k]] :
         K \in SUBSET SubRecordKeys, B \in SUBSET SubRecordKeys }

\* the scores handed to generate_loan_offer, around every tier threshold
Scores ==
    { s * (PT \div 10) : s \in {0, 250, 399, 400, 401, 549, 550, 551, 699, 700, 701,
                               849, 850, 851, 950, 1000} }
    \cup { 40 * PT - 1, 85 * PT - 1, 0 - 5 * PT }

----------------------------------------------------------------------------
(* None in the dataset *)

\* the keys calculate_trust_score and the five calculators read, as paths from
\* mtn_data, in the order in which a call first uses their values
EvaluationOrder ==
    << <<"account_info">>,
       <<"account_info", "account_status">>,
       <<"account_info", "kyc_status">>,
       <<"account_info", "customer_since">>,
       <<"account_info", "risk_indicators">>,
       <<"account_info", "risk_indicators", "identity_verification_score">>,
       <<"payment_patterns">>,
       <<"payment_patterns", "monthly_transaction_count">>,
       <<"payment_patterns", "success_rate">>,
       <<"payment_patterns", "transaction_history">>,
       <<"payment_patterns", "average_transaction_amount">>,
       <<"balance_info">>,
       <<"balance_info", "current_balance">>,
       <<"balance_info", "average_monthly_balance">>,
       <<"payment_patterns", "bill_payment_frequency">>,
       <<"payment_patterns", "regular_recipients">>,
       <<"behavioral_data">>,
       <<"behavioral_data", "app_usage_days_per_month">>,
       <<"behavioral_data", "balance_check_frequency">>,
       <<"behavioral_data", "location_consistency">>,
       <<"risk_indicators">>,
       <<"risk_indicators", "failed_transaction_rate">>,
       <<"risk_indicators", "dispute_count_6months">>,
       <<"risk_indicators", "suspicious_activity_flags">> >>

FieldPaths == { EvaluationOrder[i] : i \in DOMAIN EvaluationOrder }

\* the keys whose None the code survives: the == tests of lines 26, 31, 171-176
\* and 215-219 are False on None, and the bare except of line 54 catches the
\* AttributeError of None.replace (line 38)
TolerantPaths ==
    { <<"account_info", "account_status">>,
      <<"account_info", "kyc_status">>,
      <<"account_info", "customer_since">>,
      <<"payment_patterns", "bill_payment_frequency">>,
      <<"behavioral_data", "balance_check_frequency">> }

\* what the first use of the None at path p raises: .get on a None sub-record
\* is an AttributeError; >=, >, /, *, len and iteration on None are TypeErrors
ExceptionOn(p) ==
    IF Len(p) = 1 \/ p = <<"account_info", "risk_indicators">>
    THEN "AttributeError" ELSE "TypeError"

\* p is read by the call: none of the dicts on the way to it is None
IsRead(p, nulls) == \A n \in 1..(Len(p) - 1) : SubSeq(p, 1, n) \notin nulls

\* the positions of EvaluationOrder at which a call on a dataset with the Nones
\* `nulls' raises
RaisingPositions(nulls) ==
    { i \in DOMAIN EvaluationOrder :
        /\ EvaluationOrder[i] \in nulls
        /\ EvaluationOrder[i] \notin TolerantPaths
        /\ IsRead(EvaluationOrder[i], nulls) }

\* the least element of a non-empty set of naturals
Least(S) == CHOOSE i \in S : \A j \in S : i <= j

\* the dataset as the code sees it where it survives a None: a None status or
\* frequency is a value equal to none of the literals, formatted 'None' in the
\* factor trail, and a None customer_since is a value line 38 raises on
Nullified(d, nulls) ==
    LET sub(k) == Get(d, k, EmptyDict)
        put(k, f, v) == IF <<k, f>> \in nulls /\ <<k>> \notin nulls
                        THEN With(sub(k), f, v) ELSE sub(k)
        account  == LET a1 == put("account_info", "account_status", "None")
                        a2 == IF <<"account_info", "kyc_status">> \in nulls
                              THEN With(a1, "kyc_status", "None") ELSE a1
                    IN  IF <<"account_info", "customer_since">> \in nulls
                        THEN With(a2, "customer_since", <<"text">>) ELSE a2
        payment  == put("payment_patterns", "bill_payment_frequency", "None")
        behavior == put("behavioral_data", "balance_check_frequency", "None")
    IN  IF nulls = {} THEN d
        ELSE With(With(With(d, "account_info", account), "payment_patterns", payment),
                  "behavioral_data", behavior)

\* what calculate_trust_score(mtn_data) gives its caller: the returned dict, or
\* the exception that escapes the call
CallTrustScore(d, nulls, clock, W) ==
    IF RaisingPositions(nulls) # {}
    THEN [raised |-> ExceptionOn(EvaluationOrder[Least(RaisingPositions(nulls))])]
    ELSE calculate_trust_score(Nullified(d, nulls), clock, W)

\* the locals of the call, lost when it raises
CallLocals(d, nulls, clock, W) ==
    IF RaisingPositions(nulls) # {} THEN <<>>
    ELSE TrustScoreLocals(Nullified(d, nulls), clock, W)

----------------------------------------------------------------------------
(* The engine called on a dataset *)

Init ==
    /\ now = 0
    /\ WEIGHTS = InitialWeights
    /\ \/ mtn_data \in MixedDatasets \cup {PerfectDataset}
       \/ \E b \in BaseDatasets :
             \/ \E a \in AccountInfos : mtn_data = With(b, "account_info", a)
             \/ \E p \in TransactionFields : mtn_data = With(b, "payment_patterns", p)
             \/ \E c \in BalanceInfos, p \in BillFields :
                   mtn_data = With(With(b, "balance_info", c), "payment_patterns", p)
             \/ \E e \in BehavioralDatas : mtn_data = With(b, "behavioral_data", e)
             \/ \E r \in RiskIndicators : mtn_data = With(b, "risk_indicators", r)
    /\ frame = <<>>
    /\ result = <<>>
    /\ trust_score = 0
    /\ balance_info = EmptyDict
    /\ offer = <<>>
    /\ null_fields = {}
    /\ calls = <<>>
    /\ client = <<>>
    /\ utcnow = 0

\* the wall clock advances by a day
Tick ==
    /\ now < MaxClock
    /\ now' = now + 1
    /\ UNCHANGED <<mtn_data, frame, result, trust_score, balance_info, offer, WEIGHTS, null_fields, calls, client, utcnow>>

\* TrustScoreEngine.calculate_trust_score(mtn_data)
CalculateTrustScore ==
    /\ frame' = CallLocals(mtn_data, null_fields, now, WEIGHTS)
    /\ result' = CallTrustScore(mtn_data, null_fields, now, WEIGHTS)
    /\ UNCHANGED <<now, mtn_data, trust_score, balance_info, offer, WEIGHTS, null_fields, calls, client, utcnow>>

Next == Tick \/ CalculateTrustScore

Spec == Init /\ [][Next]_vars

----------------------------------------------------------------------------
(* The offer generator called on a score and a balance record *)

InitOffer ==
    /\ now = 0
    /\ WEIGHTS = InitialWeights
    /\ mtn_data = EmptyDict
    /\ frame = <<>>
    /\ result = <<>>
    /\ trust_score \in Scores
    /\ balance_info \in OfferBalanceInfos
    /\ offer = <<>>
    /\ null_fields = {}
    /\ calls = <<>>
    /\ client = <<>>
    /\ utcnow = 0

\* TrustScoreEngine.generate_loan_offer(trust_score, balance_info)
GenerateLoanOffer ==
    /\ offer' = generate_loan_offer(trust_score, balance_info, now)
    /\ UNCHANGED <<now, mtn_data, frame, result, trust_score, balance_info, WEIGHTS, null_fields, calls, client, utcnow>>

NextOffer == Tick \/ GenerateLoanOffer

SpecOffer == InitOffer /\ [][NextOffer]_vars

----------------------------------------------------------------------------
(* Properties of calculate_trust_score *)

\* the sub-records of the dataset as calculate_trust_score extracts them
SubRecord(k) == Get(mtn_data, k, EmptyDict)

\* a field is absent or within its documented range
InRange(d, k, lo, hi) == Has(d, k) => (d[k] >= lo /\ d[k] <= hi)

AtLeast(d, k, lo) == Has(d, k) => d[k] >= lo

ValidAccountInfo(a) ==
    InRange(Get(a, "risk_indicators", EmptyDict), "identity_verification_score", 0, 1000)

ValidPaymentPatterns(p) ==
    /\ AtLeast(p, "monthly_transaction_count", 0)
    /\ InRange(p, "success_rate", 0, 1000)
    /\ AtLeast(p, "average_transaction_amount", 0)
    /\ AtLeast(p, "regular_recipients", 0)

ValidBalanceInfo(b) ==
    AtLeast(b, "current_balance", 0) /\ AtLeast(b, "average_monthly_balance", 0)

ValidBehavioralData(e) ==
    InRange(e, "app_usage_days_per_month", 0, 31) /\ InRange(e, "location_consistency", 0, 1000)

ValidRiskIndicators(r) ==
    AtLeast(r, "failed_transaction_rate", 0) /\ AtLeast(r, "dispute_count_6months", 0)

ScoreInRange(x) == x >= 0 /\ x <= 100 * PT

\* C1: for every input dataset the final_score returned by calculate_trust_score
\* lies in [0,100] and has at most one decimal place.
C1_FinalScoreBounded ==
    result # <<>> =>
        /\ ScoreInRange(result.final_score)
        /\ result.final_score % (PT \div 10) = 0

\* a call returned, on a dataset with out-of-range fields, a score whose
\* unrounded value has more than one decimal place
C1_Witness ==
    /\ result # <<>>
    /\ frame.final_score % (PT \div 10) # 0
    /\ ~ValidBehavioralData(SubRecord("behavioral_data"))

\* C2: each of the five component calculators returns a score in [0,100] for
\* every valid sub-record (fields within their documented ranges, possibly absent).
C2_ComponentScoresBounded ==
    frame # <<>> =>
        /\ ValidAccountInfo(SubRecord("account_info")) => ScoreInRange(frame.account.score)
        /\ ValidPaymentPatterns(SubRecord("payment_patterns"))
              => ScoreInRange(frame.transaction.score)
        /\ (ValidBalanceInfo(SubRecord("balance_info"))
               /\ ValidPaymentPatterns(SubRecord("payment_patterns")))
              => ScoreInRange(frame.financial.score)
        /\ ValidBehavioralData(SubRecord("behavioral_data"))
              => ScoreInRange(frame.engagement.score)
        /\ ValidRiskIndicators(SubRecord("risk_indicators")) => ScoreInRange(frame.risk.score)

\* a call on a valid dataset whose risk rules add up to more than 100 and whose
\* account, transaction and engagement components are at 100
C2_Witness ==
    /\ frame # <<>>
    /\ ValidRiskIndicators(SubRecord("risk_indicators"))
    /\ Get(SubRecord("risk_indicators"), "failed_transaction_rate", 0) > 50
    /\ Get(SubRecord("risk_indicators"), "dispute_count_6months", 0) > 2
    /\ Len(Get(SubRecord("risk_indicators"), "suspicious_activity_flags", <<>>)) >= 4
    /\ frame.risk.score = 100 * PT
    /\ frame.account.score = 100 * PT
    /\ frame.transaction.score = 100 * PT
    /\ frame.financial.score = 95 * PT
    /\ frame.engagement.score = 100 * PT

\* C3: final_score is clamp(account*0.25 + transaction*0.30 + financial*0.25
\* + engagement*0.15 - riskDeduction*0.05, 0, 100) rounded to one decimal, the
\* five operands being the values the five component calculators return for the
\* corresponding sub-records of the dataset.
C3_WeightedAggregate ==
    frame # <<>> =>
        LET a == calculate_account_health_score(SubRecord("account_info"), frame.called_at).score
            t == calculate_transaction_patterns_score(SubRecord("payment_patterns")).score
            f == calculate_financial_behavior_score(SubRecord("balance_info"),
                                                    SubRecord("payment_patterns")).score
            e == calculate_engagement_score(SubRecord("behavioral_data")).score
            r == calculate_risk_deduction(SubRecord("risk_indicators")).score
            \* one hundred times the weighted sum
            sum100 == a * 25 + t * 30 + f * 25 + e * 15 - r * 5
            clamped100 == IF sum100 > 100 * PT * 100 THEN 100 * PT * 100
                          ELSE IF sum100 < 0 THEN 0 ELSE sum100
            diff100 == result.final_score * 100 - clamped100
        IN  /\ result.final_score % (PT \div 10) = 0
            /\ 2 * diff100 <= (PT \div 10) * 100
            /\ 2 * diff100 >= 0 - (PT \div 10) * 100

\* a call on a dataset with all five sub-records present, a non-zero risk
\* deduction and five different component scores
C3_Witness ==
    /\ frame # <<>>
    /\ DOMAIN mtn_data = SubRecordKeys
    /\ frame.risk.score > 0
    /\ Cardinality({frame.account.score, frame.transaction.score, frame.financial.score,
                    frame.engagement.score, frame.risk.score}) = 5
    /\ result.final_score > 0

----------------------------------------------------------------------------
(* Properties of generate_loan_offer *)

\* the offers a returned bundle carries
Offers == IF Has(offer, "loan_options") THEN offer.loan_options ELSE <<>>

\* tier name, max principal, rate in tenths of a percent and term in days, as
\* the specification's ladder gives them for a score
LadderOf(score) ==
    IF score >= 85 * PT THEN <<"EXCELLENT", 15000, 25, 180>>
    ELSE IF score >= 70 * PT THEN <<"GOOD", 10000, 35, 120>>
    ELSE IF score >= 55 * PT THEN <<"FAIR", 5000, 50, 90>>
    ELSE IF score >= 40 * PT THEN <<"POOR", 2000, 75, 60>>
    ELSE <<"REJECTED", 0, 0, 0>>

\* C4: the tier is selected by a top-down first-match ladder on the score alone
\* (>=85 EXCELLENT 15000/2.5/180, >=70 GOOD 10000/3.5/120, >=55 FAIR 5000/5.0/90,
\* >=40 POOR 2000/7.5/60, otherwise rejected); tier, rate and term never depend
\* on balance_info.
C4_TierLadder ==
    offer # <<>> =>
        LET X == LadderOf(trust_score)
        IN  IF X[1] = "REJECTED"
            THEN ~offer.approved
            ELSE /\ offer.approved
                 /\ offer.credit_tier = X[1]
                 /\ Len(Offers) >= 1
                 /\ \A i \in DOMAIN Offers :
                       /\ Offers[i].interest_rate_percent = X[3]
                       /\ Offers[i].term_days = X[4]
                       /\ Offers[i].amount <= X[2] * MU
                 /\ balance_info = EmptyDict => Offers[Len(Offers)].amount = X[2] * MU

\* a bundle for a score of exactly 70 whose cap the balances hold below the tier max
C4_Witness ==
    /\ offer # <<>>
    /\ trust_score = 70 * PT
    /\ offer.approved
    /\ offer.credit_tier = "GOOD"
    /\ Offers[Len(Offers)].amount < 10000 * MU

\* C5: for every score below 40 the bundle is REJECTED: approved is false, it
\* carries zero offers and a reason saying the score is below the minimum
\* threshold; for every score >= 40 the bundle is approved.
C5_RejectedBelow40 ==
    offer # <<>> =>
        IF trust_score < 40 * PT
        THEN /\ offer.approved = FALSE
             /\ Offers = <<>>
             /\ Has(offer, "reason")
             /\ offer.reason = "TrustScore below minimum threshold for loan approval"
        ELSE offer.approved = TRUE

\* the bundle returned for a score of 39.9
C5_Witness ==
    /\ offer # <<>>
    /\ trust_score = 399 * (PT \div 10)
    /\ ~offer.approved

\* C6: the affordability cap is min(2*average_monthly_balance, 5*current_balance)
\* bounded above by the tier max and below by 500, and falls back to the tier max
\* only when both balances are zero or absent.  (Violated: the code falls back
\* whenever the minimum is not positive, so also when exactly one balance is zero.)
C6_CapFallbackOnlyWhenBothZero ==
    (offer # <<>> /\ offer.approved /\ ValidBalanceInfo(balance_info)) =>
        LET tier_max == LadderOf(trust_score)[2] * 100
            current_balance == Get(balance_info, "current_balance", 0)
            avg_balance == Get(balance_info, "average_monthly_balance", 0)
            limit == IF 2 * avg_balance <= 5 * current_balance
                     THEN 2 * avg_balance ELSE 5 * current_balance
            bounded == IF limit > tier_max THEN tier_max
                       ELSE IF limit < 500 * 100 THEN 500 * 100 ELSE limit
            cap == IF current_balance = 0 /\ avg_balance = 0 THEN tier_max ELSE bounded
        IN  Len(Offers) >= 1 /\ Offers[Len(Offers)].amount = cap * CENT

\* C7: in every bundle the offer principals are non-decreasing in list order and
\* each is >= 500.
C7_PrincipalsAscending ==
    offer # <<>> =>
        \A i \in DOMAIN Offers :
            /\ Offers[i].amount >= 500 * MU
            /\ i < Len(Offers) => Offers[i].amount <= Offers[i + 1].amount

\* an approved bundle from which the smallest fractions were dropped
C7_Witness ==
    /\ offer # <<>>
    /\ offer.approved
    /\ Len(Offers) \in {2, 3}

\* the cap the call computed, in cents
CapOfCall == FinalMaxAmount(LoanTier(trust_score).max_amount, balance_info)

\* x is y rounded to whole cents
IsRounded2(x, y) == x % CENT = 0 /\ 2 * (x - y) <= CENT /\ 2 * (y - x) <= CENT

\* the fractions, in hundredths, whose principal cap * f is at least 500
KeptFractions(cap) == { f \in {25, 50, 75, 100} : cap * f >= 500 * 100 * 100 }

\* the k-th smallest element of a set of integers
Kth(S, k) == CHOOSE x \in S : Cardinality({y \in S : y < x}) = k - 1

\* C8: the offers of an approved bundle are exactly the principals cap*f for
\* f in {0.25, 0.5, 0.75, 1.0}, ascending, every fraction whose principal is below
\* 500 omitted and nothing put in its place; cap 6200 at EXCELLENT gives
\* 1550.00, 3100.00, 4650.00, 6200.00 with interest at 2.5% and fee 124.00.
C8_OffersAreFractionsOfCap ==
    (offer # <<>> /\ offer.approved) =>
        LET kept == KeptFractions(CapOfCall)
        IN  /\ Len(Offers) = Cardinality(kept)
            /\ \A i \in DOMAIN Offers :
                  IsRounded2(Offers[i].amount, CapOfCall * Kth(kept, i) * (CENT \div 100))
            /\ (CapOfCall = 6200 * 100 /\ trust_score >= 85 * PT) =>
                  /\ [i \in DOMAIN Offers |-> Offers[i].amount]
                        = <<1550 * MU, 3100 * MU, 4650 * MU, 6200 * MU>>
                  /\ [i \in DOMAIN Offers |-> Offers[i].total_interest]
                        = <<3875 * CENT, 7750 * CENT, 11625 * CENT, 15500 * CENT>>
                  /\ \A i \in DOMAIN Offers :
                        /\ Offers[i].interest_rate_percent = 25
                        /\ Offers[i].processing_fee = 124 * MU

\* the second example scenario: current balance 4200.50, average 3100.00, tier EXCELLENT
C8_Witness ==
    /\ offer # <<>>
    /\ offer.approved
    /\ offer.credit_tier = "EXCELLENT"
    /\ balance_info = [current_balance |-> 420050, average_monthly_balance |-> 310000]
    /\ Len(Offers) = 4

\* C9: within one bundle the processing fee is max(cap*0.02, 25), the same in every
\* option whatever its principal; each option's total repayment is principal +
\* principal*rate/100 + that fee and its daily repayment is total repayment / term.
C9_SharedProcessingFee ==
    (offer # <<>> /\ offer.approved) =>
        LET cap == CapOfCall
            fee == IF cap * 2 >= 25 * 100 * 100 THEN cap * 2 * (CENT \div 100) ELSE 25 * MU
            n == Len(Offers)
        IN  \A i \in DOMAIN Offers :
               LET f == 25 * (4 - n + i)
                   principal == cap * f * (CENT \div 100)
                   interest == cap * (f \div 25) * (Offers[i].interest_rate_percent \div 5)
                   total == principal + interest + fee
                   term == Offers[i].term_days
                   off == Offers[i].daily_repayment * term - total
               IN  /\ IsRounded2(Offers[i].processing_fee, fee)
                   /\ Offers[i].processing_fee = Offers[1].processing_fee
                   /\ IsRounded2(Offers[i].total_repayment, total)
                   /\ Offers[i].daily_repayment % CENT = 0
                   /\ off <= (CENT * term) \div 2
                   /\ 0 - off <= (CENT * term) \div 2

\* a bundle of several options whose shared fee is the minimum of 25
C9_Witness ==
    /\ offer # <<>>
    /\ offer.approved
    /\ Len(Offers) >= 2
    /\ Offers[1].processing_fee = 25 * MU
    /\ Offers[1].amount < Offers[Len(Offers)].amount

----------------------------------------------------------------------------
(* Influence of the risk deduction *)

\* the engine called on the datasets whose sub-records are each the best one,
\* the worst one or missing, and on the base datasets with every risk_indicators
\* sub-record
InitRisk ==
    /\ now = 0
    /\ WEIGHTS = InitialWeights
    /\ \/ mtn_data \in MixedDatasets
       \/ \E b \in BaseDatasets, r \in RiskIndicators :
             mtn_data = With(b, "risk_indicators", r)
    /\ frame = <<>>
    /\ result = <<>>
    /\ trust_score = 0
    /\ balance_info = EmptyDict
    /\ offer = <<>>
    /\ null_fields = {}
    /\ calls = <<>>
    /\ client = <<>>
    /\ utcnow = 0

NextRisk == CalculateTrustScore

SpecRisk == InitRisk /\ [][NextRisk]_vars

\* the unrounded final score of the call of `frame' had the dataset held the
\* risk_indicators sub-record r instead
FinalScoreWithRisk(r) ==
    TrustScoreLocals(With(mtn_data, "risk_indicators", r), frame.called_at, WEIGHTS).final_score

\* C10: the risk deduction changes the final score by at most 5 points: two
\* datasets that differ only in risk_indicators have pre-rounding final scores
\* at most 5 apart.
C10_RiskInfluenceAtMost5 ==
    frame # <<>> =>
        \A r \in RiskIndicators :
            /\ FinalScoreWithRisk(r) - frame.final_score <= 5 * PT
            /\ frame.final_score - FinalScoreWithRisk(r) <= 5 * PT

\* a call on a dataset without risk signals, for which some other risk_indicators
\* sub-record lowers the final score by the full 5 points
C10_Witness ==
    /\ frame # <<>>
    /\ frame.risk.score = 0
    /\ \E r \in RiskIndicators : frame.final_score - FinalScoreWithRisk(r) = 5 * PT

----------------------------------------------------------------------------
(* Monotonicity in the risk signals *)

\* the three risk signals calculate_risk_deduction reads from r
RiskSignals(r) ==
    << Get(r, "failed_transaction_rate", 0),
       Get(r, "dispute_count_6months", 0),
       Len(Get(r, "suspicious_activity_flags", <<>>)) >>

\* s2 is s1 with exactly one signal strictly larger
OneSignalLarger(s2, s1) ==
    \E i \in 1..3 : s2[i] > s1[i] /\ \A j \in (1..3) \ {i} : s2[j] = s1[j]

\* the final_score the call of `frame' would have returned with risk_indicators r
ReturnedScoreWithRisk(r) == Round1(FinalScoreWithRisk(r))

\* C11 as stated: the final score is strictly decreasing in the risk signals: of
\* two datasets equal except for one strictly larger failed_transaction_rate,
\* dispute_count_6months or number of flags, the riskier has a strictly lower
\* final score.  (Violated: the rules are threshold ladders and the deduction is
\* clamped at 100.)
C11_StrictlyDecreasingInRisk ==
    frame # <<>> =>
        \A r \in RiskIndicators :
            OneSignalLarger(RiskSignals(r), RiskSignals(SubRecord("risk_indicators")))
                => ReturnedScoreWithRisk(r) < result.final_score

\* C11 as amended: the final score is non-increasing in the risk signals: of two
\* datasets equal except for one strictly larger failed_transaction_rate,
\* dispute_count_6months or number of flags, the riskier never has the higher
\* final score.
C11_NonIncreasingInRisk ==
    frame # <<>> =>
        \A r \in RiskIndicators :
            OneSignalLarger(RiskSignals(r), RiskSignals(SubRecord("risk_indicators")))
                => ReturnedScoreWithRisk(r) <= result.final_score

\* a call for which one larger signal lowers the score and another leaves it
C11_Witness ==
    /\ frame # <<>>
    /\ \E r \in RiskIndicators :
          /\ OneSignalLarger(RiskSignals(r), RiskSignals(SubRecord("risk_indicators")))
          /\ ReturnedScoreWithRisk(r) < result.final_score
    /\ \E r \in RiskIndicators :
          /\ OneSignalLarger(RiskSignals(r), RiskSignals(SubRecord("risk_indicators")))
          /\ ReturnedScoreWithRisk(r) = result.final_score

----------------------------------------------------------------------------
(* Repeated calls on the same inputs while the wall clock advances *)

\* one strong dataset for every customer_since of the model, and the empty one
ClockDatasets ==
    {EmptyDict, BestDataset}
    \cup { With(BestDataset, "account_info",
                [account_status |-> "ACTIVE", kyc_status |-> "VERIFIED",
                 customer_since |-> v]) : v \in SinceValues }

InitClock ==
    /\ now = 0
    /\ WEIGHTS = InitialWeights
    /\ mtn_data \in ClockDatasets
    /\ frame = <<>>
    /\ result = <<>>
    /\ trust_score \in {40 * PT - 1, 40 * PT, 90 * PT}
    /\ balance_info \in {EmptyDict,
                         [current_balance |-> 420050, average_monthly_balance |-> 310000]}
    /\ offer = <<>>
    /\ null_fields = {}
    /\ calls = <<>>
    /\ client = <<>>
    /\ utcnow = 0

NextClock == Tick \/ CalculateTrustScore \/ GenerateLoanOffer

SpecClock == InitClock /\ [][NextClock]_vars

\* the dataset holds a customer_since that fromisoformat parses (line 38)
ParsableSince ==
    /\ Has(SubRecord("account_info"), "customer_since")
    /\ IsIsoDate(SubRecord("account_info")["customer_since"])

\* two returned dicts equal in all but the account-health component, its factor
\* trail and the final score that aggregates it
SameExceptAccountAge(r1, r2) ==
    /\ \A k \in {"transaction_patterns", "financial_behavior", "engagement_loyalty",
                 "risk_deduction"} :
          r1.score_components[k] = r2.score_components[k]
    /\ \A k \in {"transaction_factors", "financial_factors", "engagement_factors",
                 "risk_factors", "calculation_weights"} :
          r1.transparency_details[k] = r2.transparency_details[k]

\* two offer bundles equal in all but their two timestamps
SameExceptTimestamps(o1, o2) ==
    /\ DOMAIN o1 = DOMAIN o2
    /\ \A k \in DOMAIN o1 \ {"offer_valid_until", "next_eligibility_check"} : o1[k] = o2[k]

----------------------------------------------------------------------------
(* Calls on datasets that hold None *)

\* most keys of one dataset that hold None
MaxNulls == 2

\* the sets of at most n key paths
RECURSIVE NullSets(_)
NullSets(n) ==
    IF n = 0 THEN {{}}
    ELSE LET S == NullSets(n - 1) IN S \cup { N \cup {p} : N \in S, p \in FieldPaths }

InitMalformed ==
    /\ now = 0
    /\ WEIGHTS = InitialWeights
    /\ mtn_data \in {EmptyDict, BestDataset}
    /\ frame = <<>>
    /\ result = <<>>
    /\ trust_score = 0
    /\ balance_info = EmptyDict
    /\ offer = <<>>
    /\ null_fields \in NullSets(MaxNulls)
    /\ calls = <<>>
    /\ client = <<>>
    /\ utcnow = 0

NextMalformed == CalculateTrustScore

SpecMalformed == InitMalformed /\ [][NextMalformed]_vars

\* C13: no exception escapes a scoring call: for any dataset, including ones
\* with missing sub-records, missing fields or None in a field,
\* calculate_trust_score returns a result.  (Violated: None in a sub-record or
\* in a numeric or list field raises AttributeError or TypeError.)
C13_NoExceptionEscapes ==
    result # <<>> => ~Has(result, "raised")

----------------------------------------------------------------------------
(* The caller writes into the dict a call returned *)

\* the weights, in hundredths, a caller writes into calculation_weights
WrittenWeights == {50}

InitCaller ==
    /\ now = 0
    /\ WEIGHTS = InitialWeights
    /\ mtn_data \in {EmptyDict, BestDataset, WorstDataset}
    /\ frame = <<>>
    /\ result = <<>>
    /\ trust_score = 0
    /\ balance_info = EmptyDict
    /\ offer = <<>>
    /\ null_fields = {}
    /\ calls = <<>>
    /\ client = <<>>
    /\ utcnow = 0

\* result["transparency_details"]["calculation_weights"][k] = v in the caller:
\* line 315 returns cls.WEIGHTS itself, so the entry written is the entry of
\* the class attribute
CallerWritesWeight ==
    /\ result # <<>>
    /\ ~Has(result, "raised")
    /\ \E k \in DOMAIN WEIGHTS, v \in WrittenWeights :
          /\ WEIGHTS' = [WEIGHTS EXCEPT ![k] = v]
          /\ result' = [result EXCEPT !.transparency_details.calculation_weights = WEIGHTS']
    /\ UNCHANGED <<now, mtn_data, frame, trust_score, balance_info, offer, null_fields, calls, client, utcnow>>

\* result["final_score"] = 0.0 in the caller: the floats of the returned dict
\* are the caller's own
CallerWritesScore ==
    /\ result # <<>>
    /\ ~Has(result, "raised")
    /\ result' = [result EXCEPT !.final_score = 0]
    /\ UNCHANGED <<now, mtn_data, frame, trust_score, balance_info, offer, WEIGHTS,
                   null_fields, calls, client, utcnow>>

NextCaller == CalculateTrustScore \/ CallerWritesWeight \/ CallerWritesScore

SpecCaller == InitCaller /\ [][NextCaller]_vars

\* the sum of a weight table, in hundredths
WeightSum(W) ==
    W.account_health + W.transaction_patterns + W.financial_behavior
        + W.engagement_loyalty + W.risk_factors

\* C14: the engine refuses to run when the weight table does not sum to 1.0:
\* no call of calculate_trust_score produces a score from such a table.
\* (Violated: nothing in the module checks the table, at startup or later.)
C14_NoScoreUnlessWeightsSumToOne ==
    [][ (CalculateTrustScore /\ ~Has(result', "raised")) => WeightSum(WEIGHTS) = 100 ]_vars

\* C15: the weight table is never mutated after initialization: after any
\* sequence of calls and of caller-side writes into the returned results,
\* TrustScoreEngine.WEIGHTS holds its initial values.  (Violated: the returned
\* calculation_weights is the class attribute itself.)
C15_WeightsNeverMutated ==
    WEIGHTS = InitialWeights

----------------------------------------------------------------------------
(* Calls running in parallel threads *)

\* parallel callers
MaxCallers == 2

\* lines 275-286 of one call on dataset d: the sub-records and the five
\* component results, the clock being read once, at line 39
ComponentLocals(d, clock) ==
    LET payment_patterns == Get(d, "payment_patterns", EmptyDict)
    IN  [called_at |-> clock,
         account |-> calculate_account_health_score(Get(d, "account_info", EmptyDict), clock),
         transaction |-> calculate_transaction_patterns_score(payment_patterns),
         financial |-> calculate_financial_behavior_score(Get(d, "balance_info", EmptyDict),
                                                          payment_patterns),
         engagement |-> calculate_engagement_score(Get(d, "behavioral_data", EmptyDict)),
         risk |-> calculate_risk_deduction(Get(d, "risk_indicators", EmptyDict))]

\* lines 289-298 on the locals L: the weighted sum, read from the class
\* attribute W, the risk adjustment and the clamp
AggregateLocals(L, W) ==
    LET overall_score == OverallScore(L.account.score, L.transaction.score,
                                      L.financial.score, L.engagement.score, W)
        risk_adjusted_score == overall_score - (L.risk.score * W.risk_factors) \div 100
    IN  [overall_score |-> overall_score,
         risk_adjusted_score |-> risk_adjusted_score,
         final_score |-> Max(Min(risk_adjusted_score, 100 * PT), 0)]

\* the names of f bound as in f, the other names of g as in g
Merge(f, g) == [x \in DOMAIN f \cup DOMAIN g |-> IF x \in DOMAIN f THEN f[x] ELSE g[x]]

\* locals kept in one place for all the calls of a kind, as attributes of the
\* class would be
StoreLocals_OnTheClass(cs, t, L) ==
    [u \in DOMAIN cs |->
        IF cs[u].kind = cs[t].kind THEN [cs[u] EXCEPT !.locals = Merge(L, @)] ELSE cs[u]]

\* assignment to local variables of call t: they live in the frame of that call
StoreLocals(cs, t, L) == [cs EXCEPT ![t].locals = Merge(L, @)]

\* the calls a thread may be about to make
PendingCalls ==
    { [kind |-> "calculate_trust_score", pc |-> "called", input |-> d,
       locals |-> <<>>, result |-> <<>>] : d \in {BestDataset, WorstDataset} }
    \cup
    { [kind |-> "generate_loan_offer", pc |-> "called",
       input |-> [trust_score |-> x, balance_info |-> EmptyDict],
       locals |-> <<>>, result |-> <<>>] : x \in {40 * PT - 1, 90 * PT} }

InitConcurrent ==
    /\ now = 0
    /\ WEIGHTS = InitialWeights
    /\ mtn_data = EmptyDict
    /\ frame = <<>>
    /\ result = <<>>
    /\ trust_score = 0
    /\ balance_info = EmptyDict
    /\ offer = <<>>
    /\ null_fields = {}
    /\ calls \in [1..MaxCallers -> PendingCalls]
    /\ client = <<>>
    /\ utcnow = 0

\* thread t runs lines 275-286 of its calculate_trust_score call
ScoreComponents(t) ==
    /\ calls[t].kind = "calculate_trust_score" /\ calls[t].pc = "called"
    /\ calls' = [StoreLocals(calls, t, ComponentLocals(calls[t].input, now))
                    EXCEPT ![t].pc = "scored"]
    /\ UNCHANGED <<now, mtn_data, frame, result, trust_score, balance_info, offer, WEIGHTS,
                   null_fields, client, utcnow>>

\* thread t runs lines 289-298
Aggregate(t) ==
    /\ calls[t].kind = "calculate_trust_score" /\ calls[t].pc = "scored"
    /\ calls' = [StoreLocals(calls, t, AggregateLocals(calls[t].locals, WEIGHTS))
                    EXCEPT ![t].pc = "aggregated"]
    /\ UNCHANGED <<now, mtn_data, frame, result, trust_score, balance_info, offer, WEIGHTS,
                   null_fields, client, utcnow>>

\* thread t runs lines 300-317 and returns
ReturnScore(t) ==
    /\ calls[t].kind = "calculate_trust_score" /\ calls[t].pc = "aggregated"
    /\ calls' = [calls EXCEPT ![t].pc = "returned",
                              ![t].result = TrustScoreResult(calls[t].locals, WEIGHTS)]
    /\ UNCHANGED <<now, mtn_data, frame, result, trust_score, balance_info, offer, WEIGHTS,
                   null_fields, client, utcnow>>

\* thread t runs the ladder of lines 324-350 of its generate_loan_offer call,
\* which returns at once below the minimum score
SelectTier(t) ==
    /\ calls[t].kind = "generate_loan_offer" /\ calls[t].pc = "called"
    /\ LET T == LoanTier(calls[t].input.trust_score)
       IN  calls' = IF T.tier = "REJECTED"
                    THEN [calls EXCEPT ![t].pc = "returned", ![t].result = RejectedOffer,
                                       ![t].locals = [called_at |-> now]]
                    ELSE [StoreLocals(calls, t, [T |-> T]) EXCEPT ![t].pc = "tiered"]
    /\ UNCHANGED <<now, mtn_data, frame, result, trust_score, balance_info, offer, WEIGHTS,
                   null_fields, client, utcnow>>

\* thread t runs lines 352-399 and returns
ReturnOffer(t) ==
    /\ calls[t].kind = "generate_loan_offer" /\ calls[t].pc = "tiered"
    /\ calls' = [StoreLocals(calls, t, [called_at |-> now])
                    EXCEPT ![t].pc = "returned",
                           ![t].result = ApprovedOffer(calls[t].input.trust_score,
                                                       calls[t].locals.T,
                                                       calls[t].input.balance_info, now)]
    /\ UNCHANGED <<now, mtn_data, frame, result, trust_score, balance_info, offer, WEIGHTS,
                   null_fields, client, utcnow>>

\* the clock advances while calls are running
TickConcurrent ==
    /\ now < MaxClock
    /\ now' = now + 1
    /\ UNCHANGED <<mtn_data, frame, result, trust_score, balance_info, offer, WEIGHTS,
                   null_fields, calls, client, utcnow>>

NextConcurrent ==
    \/ TickConcurrent
    \/ \E t \in DOMAIN calls :
          \/ ScoreComponents(t)
          \/ Aggregate(t)
          \/ ReturnScore(t)
          \/ SelectTier(t)
          \/ ReturnOffer(t)

SpecConcurrent == InitConcurrent /\ [][NextConcurrent]_vars

\* what the call c returns when it runs alone on its input, reading the clock
\* when c read it
AloneResult(c) ==
    IF c.kind = "calculate_trust_score"
    THEN calculate_trust_score(c.input, c.locals.called_at, InitialWeights)
    ELSE generate_loan_offer(c.input.trust_score, c.input.balance_info, c.locals.called_at)

\* C16: under every interleaving of parallel calculate_trust_score and
\* generate_loan_offer calls, each call returns the result it would return
\* when run alone on its input.
C16_EachCallAsIfAlone ==
    \A t \in DOMAIN calls :
        calls[t].pc = "returned" => calls[t].result = AloneResult(calls[t])

\* two scoring calls on different datasets overlapped: the second started after
\* the first and returned while the first was still between its steps
C16_Witness ==
    /\ calls # <<>>
    /\ \E t, u \in DOMAIN calls :
          /\ calls[t].kind = "calculate_trust_score"
          /\ calls[u].kind = "calculate_trust_score"
          /\ calls[t].input # calls[u].input
          /\ calls[t].pc = "scored"
          /\ calls[u].pc = "returned"
          /\ calls[t].locals.called_at < calls[u].locals.called_at

----------------------------------------------------------------------------
(* calculate_trust_score_engine of apis/trustscore_simple, and scenario 1 *)

\* the keys calculate_trust_score_engine indexes with mtn_data[...]
SimpleKeys ==
    {"kyc_verified", "account_age_days", "current_balance", "avg_monthly_balance",
     "monthly_transactions", "success_rate", "app_usage_days_month", "location_consistency",
     "failed_transactions_rate", "disputes_6months"}

\* lines 58-123: the rules, each a number of points and a factor string
SimpleRules(d) ==
    << IF d["kyc_verified"] THEN <<25, "KYC verified">> ELSE <<0>>,
       IF d["account_age_days"] > 730 THEN <<20, "Account 2+ years old">>
       ELSE IF d["account_age_days"] > 365 THEN <<15, "Account 1+ year old">> ELSE <<0>>,
       IF d["current_balance"] > 300000 THEN <<15, "Strong current balance">>
       ELSE IF d["current_balance"] > 100000 THEN <<10, "Good current balance">> ELSE <<0>>,
       IF d["avg_monthly_balance"] > 200000 THEN <<15, "Consistent balance management">>
       ELSE IF d["avg_monthly_balance"] > 80000 THEN <<10, "Reasonable balance management">>
       ELSE <<0>>,
       IF d["monthly_transactions"] > 30 THEN <<15, "High transaction activity">>
       ELSE IF d["monthly_transactions"] > 15 THEN <<10, "Regular transaction activity">>
       ELSE <<0>>,
       IF d["success_rate"] > 970 THEN <<10, "Excellent transaction success rate">>
       ELSE IF d["success_rate"] > 950 THEN <<8, "Good transaction success rate">> ELSE <<0>>,
       IF d["app_usage_days_month"] > 20 THEN <<8, "Very active app usage">>
       ELSE IF d["app_usage_days_month"] > 10 THEN <<5, "Regular app usage">> ELSE <<0>>,
       IF d["location_consistency"] > 900 THEN <<7, "Consistent location patterns">>
       ELSE <<0>>,
       IF d["failed_transactions_rate"] > 30 THEN <<0 - 5, "Some failed transactions">>
       ELSE <<0>>,
       IF d["disputes_6months"] > 0 THEN <<0 - 10, "Recent disputes">> ELSE <<0>> >>

\* the points of the first n rules
RECURSIVE SimplePoints(_, _)
SimplePoints(rules, n) == IF n = 0 THEN 0 ELSE SimplePoints(rules, n - 1) + rules[n][1]

\* the factor strings of the first n rules
RECURSIVE SimpleFactors(_, _)
SimpleFactors(rules, n) ==
    IF n = 0 THEN <<>>
    ELSE SimpleFactors(rules, n - 1)
            \o (IF Len(rules[n]) = 2 THEN <<rules[n][2]>> ELSE <<>>)

\* calculate_trust_score_engine(mtn_data), lines 55-129: a KeyError escapes when
\* a key it indexes is missing
calculate_trust_score_engine(d) ==
    IF ~(SimpleKeys \subseteq DOMAIN d) THEN [raised |-> "KeyError"]
    ELSE LET rules == SimpleRules(d)
             score == SimplePoints(rules, Len(rules)) * PT
         IN  [score |-> Max(Min(score, 100 * PT), 0),
              factors |-> SimpleFactors(rules, Len(rules))]

\* simulate_mtn_data_analysis, lines 37-53: the dataset of scenario 1 with the
\* keys of calculate_trust_score_engine
SimulatedAnalysis ==
    [account_age_days |-> 850, kyc_verified |-> TRUE, current_balance |-> 420050,
     avg_monthly_balance |-> 310000, monthly_transactions |-> 42, success_rate |-> 985,
     bill_payments_monthly |-> 3, app_usage_days_month |-> 26,
     failed_transactions_rate |-> 15, disputes_6months |-> 0, location_consistency |-> 942]

\* the dataset of scenario 1 with the keys of TrustScoreEngine, opened 850 days
\* before day 0
ScenarioDataset ==
    [account_info |-> [kyc_status |-> "VERIFIED", account_status |-> "ACTIVE",
                       customer_since |-> <<"iso", 0 - 850>>],
     balance_info |-> [current_balance |-> 420050, average_monthly_balance |-> 310000],
     payment_patterns |-> [monthly_transaction_count |-> 42, success_rate |-> 985],
     behavioral_data |-> [app_usage_days_per_month |-> 26, location_consistency |-> 942],
     risk_indicators |-> [failed_transaction_rate |-> 15, dispute_count_6months |-> 0]]

\* scenario 1 and datasets next to it, in either layout
ScenarioDatasets ==
    {ScenarioDataset}
    \cup { With(ScenarioDataset, "risk_indicators", r) :
              r \in { [failed_transaction_rate |-> f, dispute_count_6months |-> n] :
                         f \in {15, 31, 60}, n \in {0, 1, 3} } }
    \cup { [SimulatedAnalysis EXCEPT !.account_age_days = a, !.kyc_verified = k,
                                     !.success_rate = sr, !.failed_transactions_rate = f,
                                     !.disputes_6months = n] :
              a \in {850, 730, 366}, k \in BOOLEAN, sr \in {985, 970},
              f \in {15, 31}, n \in {0, 1} }

InitScenario ==
    /\ now = 0
    /\ WEIGHTS = InitialWeights
    /\ mtn_data \in ScenarioDatasets
    /\ frame = <<>>
    /\ result = <<>>
    /\ trust_score = 0
    /\ balance_info = EmptyDict
    /\ offer = <<>>
    /\ null_fields = {}
    /\ calls = <<>>
    /\ client = <<>>
    /\ utcnow = 0

\* calculate_trust_score_engine(mtn_data)
CalculateTrustScoreSimple ==
    /\ frame' = <<>>
    /\ result' = calculate_trust_score_engine(mtn_data)
    /\ UNCHANGED <<now, mtn_data, trust_score, balance_info, offer, WEIGHTS, null_fields,
                   calls, client, utcnow>>

NextScenario == Tick \/ CalculateTrustScore \/ CalculateTrustScoreSimple

SpecScenario == InitScenario /\ [][NextScenario]_vars

\* C17 as stated: for the dataset of scenario 1 there is no risk deduction and
\* the aggregate score is 100.0, the clamp ceiling.  (Violated by
\* TrustScoreEngine.calculate_trust_score, whose score is 68.7.)
C17_ScenarioOneScores100 ==
    /\ (mtn_data = ScenarioDataset /\ Has(result, "final_score")) =>
          /\ result.score_components.risk_deduction = 0
          /\ result.final_score = 100 * PT
    /\ (mtn_data = SimulatedAnalysis /\ Has(result, "score")) =>
          result.score = 100 * PT

\* C17 as amended: for the dataset of scenario 1 there is no risk deduction;
\* TrustScoreEngine.calculate_trust_score returns the aggregate score 68.7
\* (components 98.0, 65.0, 55.0 and 73.3), and it is the simplified
\* calculate_trust_score_engine that returns 100, its clamp ceiling, with no
\* deduction factor.
C17_ScenarioOneScores687 ==
    /\ (mtn_data = ScenarioDataset /\ Has(result, "final_score")) =>
          /\ result.score_components.risk_deduction = 0
          /\ result.transparency_details.risk_factors
                = << <<"No significant risk factors">> >>
          /\ result.score_components
                = [account_health |-> 98 * PT, transaction_patterns |-> 65 * PT,
                   financial_behavior |-> 55 * PT, engagement_loyalty |-> 733 * (PT \div 10),
                   risk_deduction |-> 0]
          /\ result.final_score = 687 * (PT \div 10)
    /\ (mtn_data = SimulatedAnalysis /\ Has(result, "score")) =>
          /\ result.score = 100 * PT
          /\ \A i \in DOMAIN result.factors :
                result.factors[i] \notin {"Some failed transactions", "Recent disputes"}

\* calculate_trust_score has returned for scenario 1, a day after day 0
C17_Witness ==
    /\ mtn_data = ScenarioDataset
    /\ frame # <<>> /\ frame.called_at = 1
    /\ Has(result, "final_score")

----------------------------------------------------------------------------
(* Out-of-range inputs *)

\* d with field k, when present, clamped into [lo, hi]
ClampedField(d, k, lo, hi) ==
    IF Has(d, k) THEN With(d, k, Max(lo, Min(hi, d[k]))) ELSE d

\* d with field k, when present, raised to lo
RaisedField(d, k, lo) == IF Has(d, k) THEN With(d, k, Max(lo, d[k])) ELSE d

\* the sub-records with every numeric field clamped into its documented range
ClampedAccountInfo(a) ==
    IF Has(a, "risk_indicators")
    THEN With(a, "risk_indicators",
              ClampedField(a["risk_indicators"], "identity_verification_score", 0, 1000))
    ELSE a

ClampedPaymentPatterns(p) ==
    RaisedField(RaisedField(ClampedField(RaisedField(p, "monthly_transaction_count", 0),
                                         "success_rate", 0, 1000),
                            "average_transaction_amount", 0),
                "regular_recipients", 0)

ClampedBalanceInfo(b) ==
    RaisedField(RaisedField(b, "current_balance", 0), "average_monthly_balance", 0)

ClampedBehavioralData(e) ==
    ClampedField(ClampedField(e, "app_usage_days_per_month", 0, 31),
                 "location_consistency", 0, 1000)

\* C18: out-of-range raw inputs are clamped before use: every component score
\* is the score of the dataset with its numeric fields clamped into their
\* documented ranges, and so lies in [0,100].  (Violated: the calculators use
\* the raw values.)
C18_InputsClampedBeforeUse ==
    frame # <<>> =>
        /\ frame.account.score
              = calculate_account_health_score(ClampedAccountInfo(SubRecord("account_info")),
                                               frame.called_at).score
        /\ frame.transaction.score
              = calculate_transaction_patterns_score(
                    ClampedPaymentPatterns(SubRecord("payment_patterns"))).score
        /\ frame.financial.score
              = calculate_financial_behavior_score(
                    ClampedBalanceInfo(SubRecord("balance_info")),
                    ClampedPaymentPatterns(SubRecord("payment_patterns"))).score
        /\ frame.engagement.score
              = calculate_engagement_score(
                    ClampedBehavioralData(SubRecord("behavioral_data"))).score
        /\ ScoreInRange(frame.account.score)
        /\ ScoreInRange(frame.transaction.score)
        /\ ScoreInRange(frame.financial.score)
        /\ ScoreInRange(frame.engagement.score)

----------------------------------------------------------------------------
(* customer_since unparsable or absent *)

\* the contributions of lines 26-33 and 59-60 to the account-health score
StatusContribution(a) == IF Get(a, "account_status", "") = "ACTIVE" THEN 30 * PT ELSE 0

KycContribution(a) == IF Get(a, "kyc_status", "") = "VERIFIED" THEN 25 * PT ELSE 0

IdentityContribution(a) ==
    (Get(Get(a, "risk_indicators", EmptyDict), "identity_verification_score", 900) * 20 * PT)
        \div 1000

IsAgeFactor(f) == f[1] \in {"Account age: ", "Account age available"}

\* a factor trail without its age entries
WithoutAgeFactors(factors) == SelectSeq(factors, LAMBDA f : ~IsAgeFactor(f))

UnparsableSince ==
    /\ Has(SubRecord("account_info"), "customer_since")
    /\ ~IsIsoDate(SubRecord("account_info")["customer_since"])

\* C19: when customer_since is present but does not parse as a date,
\* calculate_account_health_score does not fail: the age contribution is a flat
\* +10, the factor 'Account age available' is appended, and the status, KYC and
\* identity contributions and factors are those of the same record with a
\* parsable date.
C19_UnparsableSinceFlat10 ==
    (frame # <<>> /\ UnparsableSince) =>
        LET a == SubRecord("account_info")
            others == StatusContribution(a) + KycContribution(a) + IdentityContribution(a)
        IN  /\ Has(result, "final_score")
            /\ frame.account.score = Min(others + 10 * PT, 100 * PT)
            /\ \E i \in DOMAIN frame.account.factors :
                  frame.account.factors[i] = <<"Account age available">>
            /\ \A v \in {w \in SinceValues : IsIsoDate(w)} :
                  LET p == calculate_account_health_score(With(a, "customer_since", v),
                                                          frame.called_at)
                  IN  /\ p.score = Min(others + AgeScore(frame.called_at - v[2]) * PT,
                                       100 * PT)
                      /\ WithoutAgeFactors(p.factors)
                            = WithoutAgeFactors(frame.account.factors)

\* an active, verified account with an unparsable customer_since scored
\* 30 + 25 + 10 + 18
C19_Witness ==
    /\ frame # <<>>
    /\ UnparsableSince
    /\ StatusContribution(SubRecord("account_info")) = 30 * PT
    /\ KycContribution(SubRecord("account_info")) = 25 * PT
    /\ frame.account.score = 83 * PT

\* C20: when account_info has no customer_since, the age contribution is 0 and
\* no age factor is added: the account-health score is the sum of the status,
\* KYC and identity contributions, and the call returns.
C20_AbsentSinceContributesNothing ==
    (frame # <<>> /\ ~Has(SubRecord("account_info"), "customer_since")) =>
        LET a == SubRecord("account_info")
        IN  /\ Has(result, "final_score")
            /\ frame.account.score
                  = Min(StatusContribution(a) + KycContribution(a) + IdentityContribution(a),
                        100 * PT)
            /\ WithoutAgeFactors(frame.account.factors) = frame.account.factors

\* an active, verified account without customer_since scored 30 + 25 + 18
C20_Witness ==
    /\ frame # <<>>
    /\ Has(mtn_data, "account_info")
    /\ ~Has(SubRecord("account_info"), "customer_since")
    /\ StatusContribution(SubRecord("account_info")) = 30 * PT
    /\ KycContribution(SubRecord("account_info")) = 25 * PT
    /\ frame.account.score = 73 * PT

----------------------------------------------------------------------------
(* The factor trail of calculate_risk_deduction *)

\* one of the rules of lines 243-263 applies to risk_indicators r
AnyRiskRuleApplies(r) ==
    \/ Get(r, "failed_transaction_rate", 0) > 20
    \/ Get(r, "dispute_count_6months", 0) > 0
    \/ Len(Get(r, "suspicious_activity_flags", <<>>)) > 0

\* C21: when no risk rule applies (failed rate <= 2, no disputes, no flags, or
\* the fields absent) calculate_risk_deduction returns deduction 0 and a
\* factor trail that is the single string 'No significant risk factors'; when
\* a rule applies the trail is not empty and does not hold that string.
C21_NoRiskFactorTrail ==
    frame # <<>> =>
        IF AnyRiskRuleApplies(SubRecord("risk_indicators"))
        THEN /\ frame.risk.score > 0
             /\ Len(frame.risk.factors) >= 1
             /\ \A i \in DOMAIN frame.risk.factors :
                   frame.risk.factors[i][1] # "No significant risk factors"
        ELSE /\ frame.risk.score = 0
             /\ frame.risk.factors = << <<"No significant risk factors">> >>
             /\ result.transparency_details.risk_factors
                   = << <<"No significant risk factors">> >>

\* a call on a dataset whose risk_indicators are present and trigger no rule
C21_Witness ==
    /\ frame # <<>>
    /\ Has(SubRecord("risk_indicators"), "failed_transaction_rate")
    /\ SubRecord("risk_indicators")["failed_transaction_rate"] > 0
    /\ Has(SubRecord("risk_indicators"), "suspicious_activity_flags")
    /\ ~AnyRiskRuleApplies(SubRecord("risk_indicators"))
    /\ frame.risk.factors = << <<"No significant risk factors">> >>

----------------------------------------------------------------------------
(* The amount of the risk deduction *)

\* the distinct identifiers in a list of flags
DistinctFlags(flags) == { flags[i] : i \in DOMAIN flags }

\* C22: calculate_risk_deduction returns min(100, F + D + 15*n), F being 30 for
\* a failed rate above 5, 15 above 2, else 0, D being 25 for more than 2
\* disputes, 10 for more than 0, else 0, and n the number of distinct
\* suspicious-activity flag identifiers.  (Violated: line 262 multiplies by
\* len(flags), which counts a repeated identifier each time.)
C22_DeductionCountsDistinctFlags ==
    frame # <<>> =>
        LET r == SubRecord("risk_indicators")
            failed_rate == Get(r, "failed_transaction_rate", 0)
            disputes == Get(r, "dispute_count_6months", 0)
            F == IF failed_rate > 50 THEN 30 ELSE IF failed_rate > 20 THEN 15 ELSE 0
            D == IF disputes > 2 THEN 25 ELSE IF disputes > 0 THEN 10 ELSE 0
            n == Cardinality(DistinctFlags(Get(r, "suspicious_activity_flags", <<>>)))
        IN  frame.risk.score = Min(100 * PT, (F + D + 15 * n) * PT)

----------------------------------------------------------------------------
(* Where the identity score and the transaction history are read from *)

\* datasets that supply an identity verification score as a field of
\* account_info (and some, as the calculator reads it, in a risk_indicators
\* dict inside account_info), and a transaction history in payment_patterns
SuppliedDatasets ==
    { With(With(b, "account_info", a), "payment_patterns", p) :
        b \in {EmptyDict, BestDataset},
        a \in { Dict(r) : r \in [account_status : {<<"ACTIVE">>},
                                 identity_verification_score : Opt({0, 500, 987, 1000}),
                                 risk_indicators :
                                    Opt({[identity_verification_score |-> 500]})] },
        p \in { Dict(r) : r \in [success_rate : {<<985>>},
                                 transaction_history : Opt(TransactionHistories)] } }

InitSupplied ==
    /\ now = 0
    /\ WEIGHTS = InitialWeights
    /\ mtn_data \in SuppliedDatasets
    /\ frame = <<>>
    /\ result = <<>>
    /\ trust_score = 0
    /\ balance_info = EmptyDict
    /\ offer = <<>>
    /\ null_fields = {}
    /\ calls = <<>>
    /\ client = <<>>
    /\ utcnow = 0

NextSupplied == Tick \/ CalculateTrustScore

SpecSupplied == InitSupplied /\ [][NextSupplied]_vars

\* the age contribution of lines 36-56 for a call at time clock
AgeContribution(a, clock) ==
    IF ~Has(a, "customer_since") THEN 0
    ELSE IF IsIsoDate(a["customer_since"]) THEN AgeScore(clock - a["customer_since"][2]) * PT
    ELSE 10 * PT

\* C23: the account-health score adds (identity_verification_score/100)*20 of
\* the identity verification score supplied in account_info, and the variety
\* term min(distinct types * 5, 20) uses the transaction history supplied in
\* payment_patterns.  (Violated: line 59 looks the identity score up in
\* account_info["risk_indicators"] and uses 90 when that dict is not there.)
C23_SuppliedIdentityAndHistoryUsed ==
    frame # <<>> =>
        LET a == SubRecord("account_info")
            p == SubRecord("payment_patterns")
            history == Get(p, "transaction_history", <<>>)
            without == [k \in DOMAIN p \ {"transaction_history"} |-> p[k]]
        IN  /\ Has(a, "identity_verification_score") =>
                  frame.account.score
                     = Min(StatusContribution(a) + KycContribution(a)
                              + AgeContribution(a, frame.called_at)
                              + (a["identity_verification_score"] * 20 * PT) \div 1000,
                           100 * PT)
            /\ frame.transaction.score
                  = Min(calculate_transaction_patterns_score(without).score
                           + Min(Cardinality(TransactionTypes(history)) * 5, 20) * PT,
                        100 * PT)

----------------------------------------------------------------------------
(* The highest final score *)

\* C24: for every dataset whose component scores are within [0,100], the
\* final_score of calculate_trust_score never exceeds 95.0: the four category
\* weights sum to 0.95 and the risk term is only subtracted, so 100.0 is
\* unreachable.
C24_FinalScoreAtMost95 ==
    (/\ frame # <<>>
     /\ ScoreInRange(frame.account.score)
     /\ ScoreInRange(frame.transaction.score)
     /\ ScoreInRange(frame.financial.score)
     /\ ScoreInRange(frame.engagement.score))
        => /\ frame.overall_score <= 95 * PT
           /\ frame.risk_adjusted_score <= frame.overall_score
           /\ result.final_score <= 95 * PT

\* a call whose four category scores are all 100 and whose deduction is 0
C24_Witness ==
    /\ frame # <<>>
    /\ frame.account.score = 100 * PT
    /\ frame.transaction.score = 100 * PT
    /\ frame.financial.score = 100 * PT
    /\ frame.engagement.score = 100 * PT
    /\ frame.risk.score = 0
    /\ result.final_score = 95 * PT

----------------------------------------------------------------------------
(* The shape of an approved bundle *)

\* C25: every approved bundle holds between 1 and 4 options, its last option's
\* principal is the affordability cap, and no principal exceeds the max
\* principal of the bundle's tier, for every score >= 40 and every
\* balance_info (zero, absent or negative balances included).
C25_BundleShape ==
    offer # <<>> =>
        /\ trust_score >= 40 * PT => offer.approved
        /\ offer.approved =>
              LET tier_max == LadderOf(trust_score)[2]
              IN  /\ Len(Offers) \in 1..4
                  /\ Offers[Len(Offers)].amount = CapOfCall * CENT
                  /\ CapOfCall >= 500 * 100
                  /\ CapOfCall <= tier_max * 100
                  /\ \A i \in DOMAIN Offers : Offers[i].amount <= tier_max * MU

\* an approved bundle whose balances give a limit below the floor: the single
\* option of 500
C25_Witness ==
    /\ offer # <<>> /\ offer.approved
    /\ Get(balance_info, "current_balance", 0) > 0
    /\ Get(balance_info, "current_balance", 0) * 5 <= 500 * 100
    /\ Len(Offers) = 1
    /\ Offers[1].amount = 500 * MU

\* ---------------------------------------------------------------------------
\* MTNAPIClient._get_bearer_token (mtn_client.py, lines 51-111): the cache of
\* the Bearer token.  None is <<>> and a value v is <<v>>; a str is the
\* sequence of its characters, so "" is <<>> and the token "" is <<<<>>>>;
\* a datetime is its minute.
\* ---------------------------------------------------------------------------

\* the last minute the clock of the client reaches
MaxMinute == 51

\* the token requests that may be awaiting their reply at one time
MaxInFlight == 2

\* timedelta(minutes=5) of line 55 and timedelta(minutes=55) of lines 91, 96
RefreshMargin == 5

TokenLifetime == 55

\* MTNAPIClient(): lines 21-22, with no request under way
NewClient ==
    [_bearer_token |-> <<>>, _token_expires_at |-> <<>>, in_flight |-> 0]

\* the truth value Python gives an Optional[str]: None and "" are false
TruthyStr(x) == x # <<>> /\ x[1] # <<>>

\* the truth value Python gives an Optional[datetime]: only None is false
TruthyTime(x) == x # <<>>

\* the freshness test without the margin of 5 minutes
TokenIsFresh_NoMargin(c, clock) ==
    /\ TruthyStr(c._bearer_token)
    /\ TruthyTime(c._token_expires_at)
    /\ clock < c._token_expires_at[1]

\* the condition of lines 54-55
TokenIsFresh(c, clock) ==
    /\ TruthyStr(c._bearer_token)
    /\ TruthyTime(c._token_expires_at)
    /\ clock < c._token_expires_at[1] - RefreshMargin

Whitespace == {" ", "\n", "\t"}

RECURSIVE LStrip(_)
LStrip(s) ==
    IF s # <<>> /\ s[1] \in Whitespace THEN LStrip(Tail(s)) ELSE s

RECURSIVE RStrip(_)
RStrip(s) ==
    IF s # <<>> /\ s[Len(s)] \in Whitespace THEN RStrip(SubSeq(s, 1, Len(s) - 1)) ELSE s

\* str.strip()
Strip(s) == RStrip(LStrip(s))

\* the JSON objects and the texts the token endpoint may answer with
JsonBodies ==
    { [access_token |-> <<"a">>], [access_token |-> <<>>], [error |-> <<"e">>] }

TextBodies == { <<" ", "b", "\n">>, <<" ">> }

\* what session.post gives: no connection (aiohttp raises), or a response with
\* a status, a content type and a body
Replies ==
    { [connected |-> FALSE, status |-> 0, content_type |-> "", json |-> EmptyDict,
       text |-> <<>>] }
    \cup { [connected |-> TRUE, status |-> st, content_type |-> "application/json",
            json |-> j, text |-> <<>>] : st \in {200, 401}, j \in JsonBodies }
    \cup { [connected |-> TRUE, status |-> st, content_type |-> "text/plain",
            json |-> EmptyDict, text |-> t] : st \in {200, 500}, t \in TextBodies }

\* lines 68-111 on one reply, read at minute clock: the token and expiry the
\* client holds afterwards, and what the call returns or raises.
\*   - no connection: line 70 raises, and the handler of line 101 reads
\*     response_time_ms, which line 74 never bound (line 108): the call raises
\*     UnboundLocalError;
\*   - status 200, a JSON object with access_token: lines 89-92;
\*   - status 200, a JSON object without it: .strip() of a dict at line 95
\*     raises AttributeError before anything is assigned;
\*   - status 200, a text: lines 95-97;
\*   - any other status: line 99 raises Exception.
TokenReply(c, reply, clock) ==
    LET is_dict == reply.content_type = "application/json"
        keep(exc) == [token |-> c._bearer_token, expires |-> c._token_expires_at,
                      returned |-> <<>>, raised |-> <<exc>>]
        store(tok) == [token |-> <<tok>>, expires |-> <<clock + TokenLifetime>>,
                       returned |-> <<tok>>, raised |-> <<>>]
    IN  IF ~reply.connected THEN keep("UnboundLocalError")
        ELSE IF reply.status = 200
             THEN IF is_dict /\ Has(reply.json, "access_token")
                  THEN store(reply.json["access_token"])
                  ELSE IF is_dict THEN keep("AttributeError")
                  ELSE store(Strip(reply.text))
             ELSE keep("Exception")

\* the other parity of the count of calls and replies
Flip(r) == IF r = <<>> THEN 1 ELSE 1 - r.nth

InitToken ==
    /\ now = 0
    /\ WEIGHTS = InitialWeights
    /\ mtn_data = EmptyDict
    /\ frame = <<>>
    /\ result = <<>>
    /\ trust_score = 0
    /\ balance_info = EmptyDict
    /\ offer = <<>>
    /\ null_fields = {}
    /\ calls = <<>>
    /\ client = NewClient
    /\ utcnow = 0

\* a minute passes
TickMinute ==
    /\ utcnow < MaxMinute
    /\ utcnow' = utcnow + 1
    /\ UNCHANGED <<now, mtn_data, frame, result, trust_score, balance_info, offer, WEIGHTS,
                   null_fields, calls, client>>

\* await client._get_bearer_token(), up to the await of line 70: a fresh token
\* is returned at line 56, otherwise the POST of lines 69-73 is sent.  result
\* is what this step did.
GetBearerToken ==
    /\ IF TokenIsFresh(client, utcnow)
       THEN /\ client' = client
            /\ result' = [event |-> "call", requested |-> FALSE, status |-> <<>>,
                          returned |-> client._bearer_token, raised |-> <<>>,
                          nth |-> Flip(result)]
       ELSE /\ client.in_flight < MaxInFlight
            /\ client' = [client EXCEPT !.in_flight = @ + 1]
            /\ result' = [event |-> "call", requested |-> TRUE, status |-> <<>>,
                          returned |-> <<>>, raised |-> <<>>, nth |-> Flip(result)]
    /\ UNCHANGED <<now, mtn_data, frame, trust_score, balance_info, offer, WEIGHTS,
                   null_fields, calls, utcnow>>

\* the reply to a request under way arrives: lines 74-111
TokenResponse ==
    /\ client.in_flight > 0
    /\ \E reply \in Replies :
          LET o == TokenReply(client, reply, utcnow)
          IN  /\ client' = [_bearer_token |-> o.token, _token_expires_at |-> o.expires,
                            in_flight |-> client.in_flight - 1]
              /\ result' = [event |-> "response", requested |-> TRUE,
                            status |-> IF reply.connected THEN <<reply.status>> ELSE <<>>,
                            returned |-> o.returned, raised |-> o.raised,
                            nth |-> Flip(result)]
    /\ UNCHANGED <<now, mtn_data, frame, trust_score, balance_info, offer, WEIGHTS,
                   null_fields, calls, utcnow>>

NextToken == TickMinute \/ GetBearerToken \/ TokenResponse

SpecToken == InitToken /\ [][NextToken]_vars

\* the step is a call of _get_bearer_token / the arrival of a reply
IsTokenCall == result' # result /\ result'.event = "call"

IsTokenReply == result' # result /\ result'.event = "response"

\* a fetch has succeeded: the expiry is t+55 for its minute t
FetchedAt(c) == c._token_expires_at[1] - TokenLifetime

\* the token and the expiry are as they were
CacheUnchanged ==
    /\ client'._bearer_token = client._bearer_token
    /\ client'._token_expires_at = client._token_expires_at

\* C26 as stated: after a successful fetch at minute t every call before t+50
\* returns the cached token without a request, every call at or after t+50
\* sends a request, and a failed fetch (no connection, or a status other than
\* 200) changes neither token nor expiry and raises.  (Violated: a fetch that
\* stored the token "" is never reused.)
C26_CachedTokenReusedUntil50 ==
    [][ /\ (IsTokenCall /\ TruthyTime(client._token_expires_at)
               /\ utcnow < FetchedAt(client) + 50)
           => (~result'.requested /\ result'.returned = client._bearer_token)
        /\ (IsTokenCall /\ TruthyTime(client._token_expires_at)
               /\ utcnow >= FetchedAt(client) + 50)
           => result'.requested
        /\ (IsTokenReply /\ result'.status # <<200>>)
           => (CacheUnchanged /\ result'.raised # <<>>) ]_vars

\* C26 (amended): a call of _get_bearer_token returns the cached token without
\* a request exactly when the token is a non-empty string fetched at a minute t
\* and the call is before t+50; every other call (no token yet, the token "",
\* or t+50 and later) sends a request and leaves token and expiry alone; a
\* reply of 200 that returns stores the token with expiry 55 minutes after its
\* arrival; and a failed fetch (no connection, or a status other than 200)
\* changes neither token nor expiry and raises.
C26_NonEmptyTokenReusedUntil50 ==
    [][ /\ IsTokenCall
           => /\ ~result'.requested
                 <=> /\ client._bearer_token # <<>>
                     /\ client._bearer_token # << <<>> >>
                     /\ client._token_expires_at # <<>>
                     /\ utcnow < FetchedAt(client) + 50
              /\ ~result'.requested
                 => (result'.returned = client._bearer_token /\ client' = client)
              /\ result'.requested => CacheUnchanged
        /\ (IsTokenReply /\ result'.raised = <<>>)
           => /\ result'.status = <<200>>
              /\ client'._bearer_token = result'.returned
              /\ client'._token_expires_at = <<utcnow + 55>>
        /\ (IsTokenReply /\ result'.status # <<200>>)
           => (CacheUnchanged /\ result'.raised # <<>>) ]_vars

\* a call exactly 50 minutes after the fetch of a non-empty token has sent a
\* request
C26_Witness ==
    /\ result # <<>>
    /\ result.event = "call"
    /\ result.requested
    /\ TruthyStr(client._bearer_token)
    /\ TruthyTime(client._token_expires_at)
    /\ utcnow = FetchedAt(client) + 50

====
